---- MODULE Spec2Model ----
(***************************************************************************)
(* Verification model of the data-acquisition engine:                      *)
(*   - core/update_controller.py   SafeUpdateController, http_slot         *)
(*   - gui/scanner_window.py       ScannerWindow scan/discovery epochs     *)
(*   - gui/services/ws_manager.py  WsManager and its provider threads      *)
(*   - gui/pair_analysis_window.py PairAnalysisWindow, PairAnalysisWsWorker*)
(*   - scanner/ticker_scan.py      TickerScanService: refresh throttling,  *)
(*                                 batch rotation, one scan cycle          *)
(*   - scanner/market_discovery.py MarketDiscoveryService.discover         *)
(*   - scanner/market_cache.py     MarketCache.load / save                 *)
(*   - gui/services/ccxt_price_provider.py  CcxtPriceProvider cooldowns    *)
(*   - gui/services/arbitrage_analyzer.py   analyze                        *)
(*   - gui/main_window.py, gui/services/quote_generator.py, ws_base.py     *)
(*                                 the quotes handed to the main window    *)
(* Each component has its own specification (SpecCtl, SpecScanner, ...);   *)
(* the variables of the other components stay at their initial value.      *)
(***************************************************************************)
EXTENDS Integers, Sequences, FiniteSets, TLC

(***************************************************************************)
(* Program constants                                                       *)
(***************************************************************************)
MAX_EXCHANGE_WORKERS == 4
MAX_HTTP_CONCURRENCY == 4
\* ticker_scan.py line 75: _min_symbol_refresh_s, in seconds
MinSymbolRefresh == 4
\* pair_analysis_window.py line 411: bad updates in a row before the auto-pause
BadLimit == 5
\* ccxt_price_provider.py lines 27-28, in seconds
NO_SYMBOL_COOLDOWN == 60
ERROR_COOLDOWN == 12

(***************************************************************************)
(* Bounds of the model                                                     *)
(***************************************************************************)
\* accepted submissions recorded by the controller model
MaxSubs == 2
\* scan threads outside the pool that may be at http_slot at once
MaxScanThreads == 3
\* largest run epoch / request id a window reaches
MaxEpoch == 5
\* worker threads (or jobs) of one kind alive at once in a window
MaxWorkers == 2
\* calls of start_for_selected_exchanges that start a bootstrap thread
MaxGen == 2
\* streaming signals queued to the pair-analysis window at once
MaxSignals == 2
\* seconds the clock of the throttling model runs
MaxClock == 5
\* seconds the clock of the price provider model runs
MaxPriceClock == 4
\* symbols requested from the exchange of the rotation model
MaxSymbols == 130

Keys == {"k1", "k2"}
Callers == {"c1", "c2"}
RunIds == {1, 2}
\* each key is submitted under the epoch of its own window
RunIdsOf(k) == IF k = "k1" THEN {1} ELSE RunIds \ {1}

VARIABLES
    \* ---- SafeUpdateController / http_slot ----
    in_flight,      \* SafeUpdateController._in_flight
    subs,           \* accepted submissions, in the order the lock admitted them
    queue,          \* work queue of _EXECUTOR (indices into subs)
    caller,         \* position of each thread calling submit
    last,           \* outcome of the latest lock section of submit
    forcedKeys,     \* history: keys force-released by clear_key while held
    \* ---- http_slot ----
    slots,          \* free permits of _HTTP_SEMAPHORE
    httpWait,       \* threads blocked in _HTTP_SEMAPHORE.acquire(), per kind
    httpCall,       \* threads inside `with http_slot():`, per kind
    \* ---- ScannerWindow ----
    scanning,               \* ScannerWindow._scanning
    run_id,                 \* ScannerWindow.run_id
    sc_in_flight,           \* ScannerWindow.in_flight
    discovery_request_id,   \* ScannerWindow._discovery_request_id
    scan_timer,             \* ScannerWindow._scan_timer is active
    eligible_pairs,         \* size of _eligible_pairs / _pair_exchanges
    profit_rows,            \* ScannerWindow._profit_rows: status of each pair's row
    last_updated,           \* ScannerWindow._last_updated, shown in the status label
    tickers,                \* TickerScanWorker threads and their queued signals
    discs,                  \* MarketDiscoveryWorker threads and their queued signals
    \* ---- PairAnalysisWindow ----
    p_run_id,               \* PairAnalysisWindow._run_id
    p_in_flight,            \* PairAnalysisWindow._in_flight
    fallback_active,        \* PairAnalysisWindow._fallback_active
    analysis_status,        \* PairAnalysisWindow._analysis_status
    start_enabled,          \* the start button is enabled (the stop button is not)
    ws_last_update,         \* _ws_last_update_ts: "none", or its age against _ws_stale_ms
    ws_started,             \* _ws_started_ts: "none", or its age against _ws_stale_ms
    ws_entry_map,           \* exchanges with an entry in _ws_entry_map
    bad_updates_streak,     \* PairAnalysisWindow._bad_updates_streak
    fallback_timer,         \* PairAnalysisWindow._fallback_timer is active
    p_line,                 \* history line the latest step of the window appended
    http_jobs,              \* HTTP fallback jobs of the window and their queued signals
    \* ---- PairAnalysisWsWorker / WsManager / providers ----
    p_exchanges,            \* exchanges of the window a provider is enabled for
    ws_run_id,              \* PairAnalysisWsWorker._run_id
    ws_signals,             \* quote_received / error signals queued to the window
    startup_event,          \* WsManager._startup_stop_event: 0 (None) or its generation
    events_set,             \* the events that are set
    providers,              \* WsManager._providers, in insertion order
    boot,                   \* the bootstrap thread of each generation
    prov,                   \* the provider threads
    last_op,                \* outcome of the latest call into the manager
    discarded,              \* kind of completion the latest step threw away as stale
    \* ---- TickerScanService refresh throttling ----
    clock,                  \* time.monotonic(), in seconds
    symbol_last_fetch,      \* TickerScanService._symbol_last_fetch[(exchange, symbol)]
    scan,                   \* scan cycles: position and the `now` of line 89
    pair_fetch,             \* a fetch_pair_tickers call: position and its `now`
    fetched_at,             \* when the gateway last returned the symbol's ticker
    \* ---- MarketDiscoveryService.discover run by MarketDiscoveryWorker ----
    d_exchanges,            \* the exchanges argument (labels, in the order given)
    d_min,                  \* the min_exchanges argument
    d_catalogue,            \* the markets each exchange (or its cache file) holds
    d_pc,                   \* position of the worker thread in run / discover
    d_idx,                  \* index of the loop of line 72
    d_cancelled,            \* MarketDiscoveryWorker._cancelled
    d_pairs,                \* pair_exchanges of line 67 (no key: empty set)
    d_counts,               \* exchange_counts of line 68
    d_failed,               \* exchanges whose load_markets raised
    d_result,               \* the MarketDiscoveryResult discover returned
    d_emitted,              \* the signal run emitted
    d_cache,                \* the file of each exchange in the cache directory, once looked at
    \* ---- CcxtPriceProvider, for one exchange ----
    pp_clock,               \* datetime.now(), in seconds
    markets_loaded,         \* the exchange is in _markets_loaded
    market_future,          \* _market_futures[exchange]: "none", or the state of the future
    market_retry_after,     \* _market_retry_after[exchange]
    error_cooldown_until,   \* _error_cooldown_until[exchange]
    no_symbol_until,        \* _no_symbol_until[exchange]
    symbol_cache,           \* _symbol_cache holds the exchange's stable pair
    pp_listed,              \* kinds of pair the exchange's catalogue lists
    pp_call,                \* the call of an entry point that is in progress
    pp_ret,                 \* what the request that ended in the latest step returned
    pp_error_at,            \* when the latest transport error happened
    pp_nosym_at,            \* when the latest symbol resolution failed
    \* ---- TickerScanService._select_symbol_batch, for one exchange ----
    symbol_count,           \* how many symbols the scan asks the exchange for
    symbol_age,             \* age of _symbol_last_fetch[(exchange, symbol)] at the latest `now`
    exchange_offsets,       \* TickerScanService._exchange_offsets[exchange]
    rot_batch,              \* the batch the latest cycle fetched
    \* ---- TickerScanService.scan, one cycle ----
    cy_limit,               \* the max_intrabook_spread_pct argument
    scan_pairs,             \* the pairs argument of scan
    max_pairs,              \* the max_pairs argument of scan
    cy_due,                 \* the (symbol, exchange) keys that are due at `now`
    cy_pc,                  \* position of the call: "fetch", "pairs" or "done"
    cy_ex,                  \* index of the loop of line 109
    cy_sym,                 \* index of the loop of line 153
    cy_pair,                \* index of the loop of line 168
    ticker_map,             \* ticker_map of line 98
    ok_count,               \* ok_count
    fail_count,             \* fail_count
    skipped_count,          \* skipped_count
    scan_errors,            \* errors of line 100
    scan_updates,           \* updates of line 99
    cy_calls,               \* history: the calls made to the gateway, and how they ended
    cy_valid,               \* history: valid_entries of each pair handled
    \* ---- arbitrage_analyzer.analyze ----
    an_quotes,              \* the quotes argument
    an_min_spread,          \* the min_spread_pct argument
    an_only_ws,             \* the only_ws argument
    an_top_n,               \* the top_n argument
    an_result,              \* the ArbitrageResult returned, once analyze has run
    \* ---- MainWindow ----
    quotes_by_exchange,     \* MainWindow._quotes_by_exchange (no key: <<>>)
    \* ---- MarketCache: the files of one exchange ----
    mc_path,        \* the file named <name>.json (NoFile: no such name)
    mc_tmp,         \* the file named <name>.tmp
    mc_data,        \* file -> the chunks it holds
    mc_saver,       \* saver -> where its save stands, its handle and offset
    mc_loaded,      \* what the last load found
    \* ---- MainWindow: streaming ----
    mw_timer,           \* MainWindow._timer.isActive()
    fetch_in_progress,  \* MainWindow._fetch_in_progress
    mw_stop_event,      \* the _startup_stop_event of the window's WsManager (id 0: None)
    mw_status,          \* the text of the status label
    mw_workers,         \* QuoteFetchWorkers started and not yet delivered
    updates_count,      \* MainWindow._updates_count
    fetching            \* per pool job: where fetch_pair_tickers stands in its loop

ctlVars == <<in_flight, subs, queue, caller, last, forcedKeys>>
httpVars == <<slots, httpWait, httpCall>>
\* the fields of the scanner window
scState == <<scanning, run_id, sc_in_flight, discovery_request_id, scan_timer,
             eligible_pairs, profit_rows, last_updated>>
scVars == <<scState, tickers, discs>>

\* the fields of the pair-analysis window
pState == <<p_run_id, p_in_flight, fallback_active, analysis_status, start_enabled,
            ws_last_update, ws_started, ws_entry_map, bad_updates_streak, fallback_timer>>
wsVars == <<p_exchanges, ws_run_id, ws_signals, startup_event, events_set, providers,
            boot, prov, last_op>>
pairVars == <<pState, p_line, http_jobs, wsVars>>
thrVars == <<clock, symbol_last_fetch, scan, pair_fetch, fetched_at>>
discVars == <<d_exchanges, d_min, d_catalogue, d_pc, d_idx, d_cancelled, d_pairs,
              d_counts, d_failed, d_result, d_emitted, d_cache>>
priceVars == <<pp_clock, markets_loaded, market_future, market_retry_after,
               error_cooldown_until, no_symbol_until, symbol_cache, pp_listed, pp_call,
               pp_ret, pp_error_at, pp_nosym_at>>
rotVars == <<symbol_count, symbol_age, exchange_offsets, rot_batch>>
\* the components that compute over tickers and quotes
cycleVars == <<cy_limit, scan_pairs, max_pairs, cy_due, cy_pc, cy_ex, cy_sym, cy_pair,
               ticker_map, ok_count, fail_count,
               skipped_count, scan_errors, scan_updates, cy_calls, cy_valid>>
anVars == <<an_quotes, an_min_spread, an_only_ws, an_top_n, an_result>>
cacheVars == <<mc_path, mc_tmp, mc_data, mc_saver, mc_loaded>>
streamVars == <<mw_timer, fetch_in_progress, mw_stop_event, mw_status, mw_workers,
                updates_count>>
calcVars == <<rotVars, cycleVars, anVars, quotes_by_exchange, cacheVars, streamVars, fetching>>
\* the components that run jobs, windows and providers
coreVars == <<ctlVars, httpVars, scVars, pairVars, discarded, thrVars, discVars, priceVars>>
vars == <<coreVars, calcVars>>

\* what the actions of one component leave alone
notCtl == <<httpVars, scVars, pairVars, discarded, thrVars, discVars, priceVars, calcVars>>
notHttp == <<ctlVars, scVars, pairVars, discarded, thrVars, discVars, priceVars, calcVars>>
notSc == <<ctlVars, httpVars, pairVars, thrVars, discVars, priceVars, calcVars>>
notPair == <<ctlVars, httpVars, scVars, thrVars, discVars, priceVars, calcVars>>
notThr == <<ctlVars, httpVars, scVars, pairVars, discarded, discVars, priceVars, calcVars>>
notDisc == <<ctlVars, httpVars, scVars, pairVars, discarded, thrVars, priceVars, calcVars>>
notPrice == <<ctlVars, httpVars, scVars, pairVars, discarded, thrVars, discVars, calcVars>>
notRot == <<coreVars, cycleVars, anVars, quotes_by_exchange, cacheVars, streamVars, fetching>>
notCycle == <<coreVars, rotVars, anVars, quotes_by_exchange, cacheVars, streamVars, fetching>>
notAnalyze == <<coreVars, rotVars, cycleVars, quotes_by_exchange, cacheVars, streamVars, fetching>>
notQuote == <<coreVars, rotVars, cycleVars, anVars, cacheVars, streamVars, fetching>>
notCache == <<coreVars, rotVars, cycleVars, anVars, quotes_by_exchange, streamVars, fetching>>
notStream == <<coreVars, rotVars, cycleVars, anVars, quotes_by_exchange, cacheVars, fetching>>
\* what a step of fetch_pair_tickers at the limiter leaves alone
notFetching == <<ctlVars, scVars, pairVars, discarded, thrVars, discVars, priceVars,
                 rotVars, cycleVars, anVars, quotes_by_exchange, cacheVars, streamVars>>

(***************************************************************************)
(* SafeUpdateController                                                    *)
(***************************************************************************)
SubIds == 1..Len(subs)

\* a submission holds its key from the lock section of submit until _done
\* has discarded it
Unresolved(i) == subs[i].st \notin {"released", "finished"}

\* pool threads occupied: running the task, or running _done as the
\* future's callback
BusyWorkers ==
    Cardinality({i \in SubIds :
        \/ subs[i].st = "running"
        \/ subs[i].st \in {"done", "notified", "released"} /\ subs[i].by = "worker"})

KeyBusyNever(k) == FALSE
\* update_controller.py:42  `if key in self._in_flight`
KeyBusy(k) == k \in in_flight

\* a signal of the job as emitted: its name and the run id it carries
Emitted(sig, r) == [sig |-> sig, run |-> r]

OutcomeSignalAlwaysSucceeded(ok) == "succeeded"
\* _done, lines 51-56: `except Exception` emits failed, `else` emits succeeded
OutcomeSignal(ok) == IF ok THEN "succeeded" ELSE "failed"

\* `last` holds what the lock section of submit answered in the step that
\* led to the current state, and NoResult after every other step
NoResult == [key |-> "-", res |-> "-"]

InitCtl ==
    /\ in_flight = {}
    /\ subs = <<>>
    /\ queue = <<>>
    /\ caller = [c \in Callers |-> [pc |-> "idle", sid |-> 0]]
    /\ last = NoResult
    /\ forcedKeys = {}

\* submit, lines 41-46: the lock section (`return None` or add the key),
\* then started.emit
SubmitLock(c, k, r) ==
    /\ caller[c].pc = "idle"
    /\ IF KeyBusy(k)
       THEN /\ last' = [key |-> k, res |-> "none"]
            /\ UNCHANGED <<in_flight, subs, caller>>
       ELSE /\ Len(subs) < MaxSubs
            /\ in_flight' = in_flight \cup {k}
            /\ subs' = Append(subs, [key |-> k, run |-> r, st |-> "accepted",
                                     cb |-> FALSE, by |-> "-", ok |-> TRUE,
                                     ev |-> <<Emitted("started", r)>>])
            /\ caller' = [caller EXCEPT ![c] = [pc |-> "handoff", sid |-> Len(subs) + 1]]
            /\ last' = [key |-> k, res |-> "accepted"]
    /\ UNCHANGED <<queue, forcedKeys>>
    /\ UNCHANGED notCtl

\* submit, line 48: _EXECUTOR.submit(task) returns a future
SubmitHandoff(c) ==
    /\ caller[c].pc = "handoff"
    /\ subs' = [subs EXCEPT ![caller[c].sid].st = "queued"]
    /\ queue' = Append(queue, caller[c].sid)
    /\ caller' = [caller EXCEPT ![c].pc = "addcb"]
    /\ last' = NoResult
    /\ UNCHANGED <<in_flight, forcedKeys>>
    /\ UNCHANGED notCtl

\* submit, line 48: _EXECUTOR.submit(task) raises (executor shut down, no
\* thread can be started); the exception leaves submit, no handler runs
SubmitHandoffFails(c) ==
    /\ caller[c].pc = "handoff"
    /\ subs' = [subs EXCEPT ![caller[c].sid].st = "lost"]
    /\ caller' = [caller EXCEPT ![c] = [pc |-> "idle", sid |-> 0]]
    /\ last' = NoResult
    /\ UNCHANGED <<in_flight, queue, forcedKeys>>
    /\ UNCHANGED notCtl

\* submit, lines 62-63: add_done_callback; a future that is already done
\* runs _done at once on the calling thread
SubmitAddCallback(c) ==
    /\ caller[c].pc = "addcb"
    /\ LET i == caller[c].sid IN
       IF subs[i].st = "done"
       THEN /\ subs' = [subs EXCEPT ![i].cb = TRUE, ![i].by = "caller"]
            /\ caller' = [caller EXCEPT ![c].pc = "inline"]
       ELSE /\ subs' = [subs EXCEPT ![i].cb = TRUE]
            /\ caller' = [caller EXCEPT ![c] = [pc |-> "idle", sid |-> 0]]
    /\ last' = NoResult
    /\ UNCHANGED <<in_flight, queue, forcedKeys>>
    /\ UNCHANGED notCtl

\* submit returns the job after the inline _done has ended
SubmitReturn(c) ==
    /\ caller[c].pc = "inline"
    /\ subs[caller[c].sid].st = "finished"
    /\ caller' = [caller EXCEPT ![c] = [pc |-> "idle", sid |-> 0]]
    /\ last' = NoResult
    /\ UNCHANGED <<in_flight, subs, queue, forcedKeys>>
    /\ UNCHANGED notCtl

\* a pool thread takes the oldest queued task
TaskStart ==
    /\ queue # <<>>
    /\ BusyWorkers < MAX_EXCHANGE_WORKERS
    /\ subs' = [subs EXCEPT ![Head(queue)].st = "running"]
    /\ queue' = Tail(queue)
    /\ last' = NoResult
    /\ UNCHANGED <<in_flight, caller, forcedKeys>>
    /\ UNCHANGED notCtl

\* the task returns (ok) or raises: the future is done; with the callback
\* registered the pool thread goes on into _done
TaskEnds(i, ok) ==
    /\ subs[i].st = "running"
    /\ subs' = [subs EXCEPT ![i].st = "done", ![i].ok = ok,
                            ![i].by = IF subs[i].cb THEN "worker" ELSE "-"]
    /\ last' = NoResult
    /\ UNCHANGED <<in_flight, queue, caller, forcedKeys>>
    /\ UNCHANGED notCtl

\* _done, lines 51-56: failed.emit or succeeded.emit
DoneNotify(i) ==
    /\ subs[i].st = "done"
    /\ subs[i].by # "-"
    /\ subs' = [subs EXCEPT ![i].st = "notified",
                            ![i].ev = Append(@, Emitted(OutcomeSignal(subs[i].ok), subs[i].run))]
    /\ last' = NoResult
    /\ UNCHANGED <<in_flight, queue, caller, forcedKeys>>
    /\ UNCHANGED notCtl

\* _done, lines 57-59: finally: with self._lock: discard(key)
DoneRelease(i) ==
    /\ subs[i].st = "notified"
    /\ in_flight' = in_flight \ {subs[i].key}
    /\ subs' = [subs EXCEPT ![i].st = "released"]
    /\ last' = NoResult
    /\ UNCHANGED <<queue, caller, forcedKeys>>
    /\ UNCHANGED notCtl

\* _done, line 60: finished.emit
DoneFinished(i) ==
    /\ subs[i].st = "released"
    /\ subs' = [subs EXCEPT ![i].st = "finished", ![i].by = "-",
                            ![i].ev = Append(@, Emitted("finished", subs[i].run))]
    /\ last' = NoResult
    /\ UNCHANGED <<in_flight, queue, caller, forcedKeys>>
    /\ UNCHANGED notCtl

\* clear_key, lines 65-67
ClearKey(k) ==
    /\ k \in in_flight
    /\ in_flight' = in_flight \ {k}
    /\ forcedKeys' = IF \E i \in SubIds : subs[i].key = k /\ Unresolved(i)
                     THEN forcedKeys \cup {k} ELSE forcedKeys
    /\ last' = NoResult
    /\ UNCHANGED <<subs, queue, caller>>
    /\ UNCHANGED notCtl

CtlStep ==
    \/ \E c \in Callers, k \in Keys : \E r \in RunIdsOf(k) : SubmitLock(c, k, r)
    \/ \E c \in Callers : SubmitHandoff(c)
    \/ \E c \in Callers : SubmitHandoffFails(c)
    \/ \E c \in Callers : SubmitAddCallback(c)
    \/ \E c \in Callers : SubmitReturn(c)
    \/ TaskStart
    \/ \E i \in SubIds, ok \in BOOLEAN : TaskEnds(i, ok)
    \/ \E i \in SubIds : DoneNotify(i)
    \/ \E i \in SubIds : DoneRelease(i)
    \/ \E i \in SubIds : DoneFinished(i)
    \/ \E k \in Keys : ClearKey(k)

(***************************************************************************)
(* Claims about the controller (checked under SpecCtl)                     *)
(***************************************************************************)
\* the accepted submissions of key k that have not released it yet, in the
\* state before a step
HeldBefore(k) == \E i \in SubIds : subs[i].key = k /\ Unresolved(i)

\* what the claim demands of one lock section of submit on key k
DedupStep(k) ==
    (last' # NoResult /\ last'.key = k) =>
        IF HeldBefore(k)
        THEN last'.res = "none" /\ subs' = subs /\ queue' = queue
        ELSE last'.res = "accepted" /\ Len(subs') = Len(subs) + 1

\* C1 (as stated): a submit of a key made while an earlier accepted submit
\* of that key has not completed returns None and starts no task; once the
\* earlier one has completed, a later submit of the key is accepted.
C1_DedupAsStated == [][\A k \in Keys : DedupStep(k)]_vars

\* C1 (amended): the same, for every key that clear_key has not
\* force-released while a submission was holding it.
C1_Dedup == [][\A k \in Keys \ forcedKeys : DedupStep(k)]_vars

\* C1 witness: the first submission of a key has completed, a second one of
\* the same key was accepted after it and is still running, and a third
\* submit of that key has just been answered None.
C1_Witness ==
    /\ last.res = "none"
    /\ last.key \notin forcedKeys
    /\ \E i, j \in SubIds :
        /\ i < j
        /\ subs[i].key = last.key /\ subs[i].st = "finished"
        /\ subs[j].key = last.key /\ subs[j].st = "running"

\* the signals of submission i after started, in the order of their emits
Outcome(i) == Tail(subs[i].ev)

\* the task of submission i has ended and _done has run to its end
Completed(i) == subs[i].st = "finished"

\* C19: a task that raises yields exactly one failed(runId, message) and no
\* succeeded, a task that returns exactly one succeeded(runId, result) and
\* no failed, each followed by exactly one finished(runId) with the run id
\* given to submit; nothing is emitted before the task has ended, and a
\* submit leaves by an exception only when the hand-over failed, before
\* any task ran.
C19_OneOutcomeThenFinished ==
    \A i \in SubIds :
        /\ Completed(i) =>
              Outcome(i) = << Emitted(IF subs[i].ok THEN "succeeded" ELSE "failed", subs[i].run),
                              Emitted("finished", subs[i].run) >>
        /\ subs[i].st \in {"released", "notified"} =>
              Outcome(i) = << Emitted(IF subs[i].ok THEN "succeeded" ELSE "failed", subs[i].run) >>
        /\ subs[i].st \in {"accepted", "queued", "running", "done", "lost"} => Outcome(i) = <<>>

\* C19 witness: a task that raised and a task that returned, submitted
\* with different run ids, have both run to their finished signal, and
\* every submit has returned.
C19_Witness ==
    \E i, j \in SubIds :
        /\ Completed(i) /\ ~subs[i].ok
        /\ Completed(j) /\ subs[j].ok
        /\ subs[i].run # subs[j].run
        /\ \A c \in Callers : caller[c].pc = "idle"

\* a submission whose submit has left by an exception, or whose finished
\* signal has been emitted
Exited(i) == subs[i].st \in {"lost", "finished"}

\* key of submission i was taken again by a later accepted submit
HeldByLater(i) ==
    \E j \in SubIds : j > i /\ subs[j].key = subs[i].key /\ Unresolved(j)

\* C2: every key accepted by submit is released on every exit path (the
\* task returned, the task raised, the hand-over to the executor failed),
\* and it is already released when finished(runId) is emitted.
C2_ReleasedOnEveryExit ==
    \A i \in SubIds :
        (Exited(i) /\ ~HeldByLater(i)) => subs[i].key \notin in_flight

\* submission i is older than a submission of the same key that was accepted
\* after clear_key released the key, and that newer task is still running
NewerRunning(i) ==
    /\ subs[i].key \in forcedKeys
    /\ \E j \in SubIds : j > i /\ subs[j].key = subs[i].key /\ subs[j].st = "running"

\* the step in which _done of submission i leaves its lock section
Releases(i) == subs[i].st = "notified" /\ subs'[i].st = "released"

\* C38: after clear_key(k) force-released a key whose task was still
\* running and k was submitted again, the completion of the older task does
\* not release k while the newer task is still running.
C38_OlderKeepsKey ==
    [][\A i \in SubIds :
          (Releases(i) /\ NewerRunning(i) /\ subs[i].key \in in_flight)
              => subs[i].key \in in_flight']_vars

\* without clear_key no completion finds a newer task of its key running
NoNewerUnlessCleared ==
    \A i, j \in SubIds :
        (i < j /\ subs[i].key = subs[j].key /\ Unresolved(i) /\ subs[j].st # "lost")
            => subs[i].key \in forcedKeys

(***************************************************************************)
(* http_slot: the global limiter of outbound calls.  Its users are the     *)
(* pool threads of _EXECUTOR running fetch_pair_tickers ("pool", at most   *)
(* MAX_EXCHANGE_WORKERS of them) and the scan threads started by           *)
(* TickerScanWorker ("scan"), which run outside the pool.                  *)
(***************************************************************************)
HttpKinds == {"pool", "scan"}

HttpThreads(kind) == IF kind = "pool" THEN MAX_EXCHANGE_WORKERS ELSE MaxScanThreads

Inside == httpCall["pool"] + httpCall["scan"]

InitHttp ==
    /\ slots = MAX_HTTP_CONCURRENCY
    /\ httpWait = [kd \in HttpKinds |-> 0]
    /\ httpCall = [kd \in HttpKinds |-> 0]

SlotFreeAlways == TRUE
\* http_slot, line 82: _HTTP_SEMAPHORE.acquire() blocks while no permit is free
SlotFree == slots > 0

SlotsAfterCallLeak(ok) == IF ok THEN slots + 1 ELSE slots
SlotsAfterCallKept(ok) == slots
\* http_slot, lines 83-86: try / yield / finally release
SlotsAfterCall(ok) == slots + 1

\* a thread reaches `with http_slot():` (ticker_scan.py lines 134, 156, 258)
HttpWant(kind) ==
    /\ httpWait[kind] + httpCall[kind] < HttpThreads(kind)
    /\ httpWait' = [httpWait EXCEPT ![kind] = @ + 1]
    /\ UNCHANGED <<slots, httpCall>>
    /\ UNCHANGED notHttp

\* http_slot, line 82: acquire
HttpAcquire(kind) ==
    /\ httpWait[kind] > 0
    /\ SlotFree
    /\ slots' = slots - 1
    /\ httpWait' = [httpWait EXCEPT ![kind] = @ - 1]
    /\ httpCall' = [httpCall EXCEPT ![kind] = @ + 1]
    /\ UNCHANGED notHttp

\* the outbound call returns (ok) or raises; http_slot lines 85-86 run
HttpCallEnds(kind, ok) ==
    /\ httpCall[kind] > 0
    /\ slots' = SlotsAfterCall(ok)
    /\ httpCall' = [httpCall EXCEPT ![kind] = @ - 1]
    /\ UNCHANGED httpWait
    /\ UNCHANGED notHttp

HttpStep ==
    \/ \E kd \in HttpKinds : HttpWant(kd)
    \/ \E kd \in HttpKinds : HttpAcquire(kd)
    \/ \E kd \in HttpKinds, ok \in BOOLEAN : HttpCallEnds(kd, ok)

(***************************************************************************)
(* Claims about the limiter (checked under SpecHttp)                       *)
(***************************************************************************)
\* C4: at most MAX_HTTP_CONCURRENCY (4) calls are inside http_slot at any
\* moment, and every call that has ended, by return or by exception, has
\* given its slot back: the free slots are always 4 minus the calls inside,
\* so all 4 are free once every call has ended.
C4_SlotBound ==
    /\ Inside <= MAX_HTTP_CONCURRENCY
    /\ slots = MAX_HTTP_CONCURRENCY - Inside

\* C4 witness: 4 calls are inside, from pool and scan threads together,
\* and further threads are blocked in acquire.
C4_Witness ==
    /\ Inside = MAX_HTTP_CONCURRENCY
    /\ httpCall["pool"] > 0 /\ httpCall["scan"] > 0
    /\ httpWait["pool"] + httpWait["scan"] >= 2

(***************************************************************************)
(* ScannerWindow: the GUI thread runs one handler at a time; the discovery *)
(* and ticker workers run in their own QThreads and reach the window by    *)
(* queued signals.                                                         *)
(***************************************************************************)
Pairs == {"p1"}

\* the windows share the epoch budget of the model
EpochsLeft == run_id + p_run_id < MaxEpoch

\* a delivered update is at or above the opportunity threshold ("hit"),
\* below it ("miss"), or the result holds no update for the pair ("none")
UpdateKinds == {"none", "hit", "miss"}

RemoveAt(seq, i) == [j \in 1..(Len(seq) - 1) |-> IF j < i THEN seq[j] ELSE seq[j + 1]]

InitScanner ==
    /\ scanning = FALSE
    /\ run_id = 0
    /\ sc_in_flight = FALSE
    /\ discovery_request_id = 0
    /\ scan_timer = FALSE
    /\ eligible_pairs = 0
    /\ profit_rows = [p \in Pairs |-> "-"]
    /\ last_updated = FALSE
    /\ tickers = <<>>
    /\ discs = <<>>

\* _cancel_market_discovery, lines 391-394: cancel() goes to the worker
\* self._discovery_worker refers to, the one started last
CancelledDiscs == [i \in 1..Len(discs) |->
                      IF discs[i].cur THEN [discs[i] EXCEPT !.cancelled = TRUE] ELSE discs[i]]

\* _start_market_discovery, lines 364-389: the new worker becomes
\* self._discovery_worker
WithNewDisc(ds, req) ==
    Append([i \in 1..Len(ds) |-> [ds[i] EXCEPT !.cur = FALSE]],
           [req |-> req, cancelled |-> FALSE, cur |-> TRUE, st |-> "running"])

\* _start_scan, lines 285-307
StartScan ==
    /\ ~scanning
    /\ EpochsLeft /\ discovery_request_id < MaxEpoch
    /\ Len(discs) < MaxWorkers
    /\ run_id' = run_id + 1
    /\ sc_in_flight' = FALSE
    /\ eligible_pairs' = 0
    /\ profit_rows' = [p \in Pairs |-> "-"]
    /\ scanning' = TRUE
    /\ discovery_request_id' = discovery_request_id + 1
    /\ discs' = WithNewDisc(discs, discovery_request_id + 1)
    /\ UNCHANGED <<scan_timer, last_updated, tickers>>
    /\ discarded' = "-"
    /\ UNCHANGED notSc

\* _stop_scan, lines 309-320 (with _cancel_market_discovery and
\* _stop_ticker_scan, lines 455-461)
StopScan ==
    /\ scanning
    /\ EpochsLeft /\ discovery_request_id < MaxEpoch
    /\ discs' = CancelledDiscs
    /\ discovery_request_id' = discovery_request_id + 1
    /\ run_id' = run_id + 1
    /\ sc_in_flight' = FALSE
    /\ scan_timer' = FALSE
    /\ scanning' = FALSE
    /\ UNCHANGED <<eligible_pairs, profit_rows, last_updated, tickers>>
    /\ discarded' = "-"
    /\ UNCHANGED notSc

\* _clear_scan, lines 322-336
ClearScan ==
    /\ EpochsLeft /\ discovery_request_id < MaxEpoch
    /\ discs' = CancelledDiscs
    /\ discovery_request_id' = discovery_request_id + 1
    /\ run_id' = run_id + 1
    /\ sc_in_flight' = FALSE
    /\ scan_timer' = FALSE
    /\ eligible_pairs' = 0
    /\ profit_rows' = [p \in Pairs |-> "-"]
    /\ scanning' = FALSE
    /\ last_updated' = FALSE
    /\ UNCHANGED tickers
    /\ discarded' = "-"
    /\ UNCHANGED notSc

\* MarketDiscoveryWorker.run, lines 654-669 of scanner_window.py: discover raises (failed is
\* emitted whatever the cancel flag), or returns: a cancelled worker ends
\* silently, any other emits finished(request_id, result)
DiscoveryEnds(i, raised) ==
    /\ discs[i].st = "running"
    /\ discs' = IF raised THEN [discs EXCEPT ![i].st = "failed"]
                ELSE IF discs[i].cancelled THEN RemoveAt(discs, i)
                ELSE [discs EXCEPT ![i].st = "finished"]
    /\ UNCHANGED <<scState, tickers>>
    /\ discarded' = "-"
    /\ UNCHANGED notSc

DiscFreshAlways(req) == TRUE
\* lines 397 and 427: `if request_id != self._discovery_request_id: return`
DiscFresh(req) == req = discovery_request_id

TickerFreshAlways(run) == TRUE
\* lines 494 and 547: `if run_id != self.run_id: return`
TickerFresh(run) == run = run_id

\* _request_ticker_update, lines 463-489, in the state reached by the
\* handler that calls it (run epoch r, in-flight flag f)
TickersAfterRequest(ts, r, f) ==
    IF f THEN ts ELSE Append(ts, [run |-> r, st |-> "running"])

\* _on_discovery_finished, lines 396-424; found: the eligible pairs of the
\* result; enough: the selected exchanges reach min_exchanges (line 414)
OnDiscoveryFinished(i, found, enough) ==
    /\ discs[i].st = "finished"
    /\ discs' = RemoveAt(discs, i)
    /\ IF ~DiscFresh(discs[i].req)
       THEN UNCHANGED <<scState, tickers>>
       ELSE /\ eligible_pairs' = found
            /\ profit_rows' = [p \in Pairs |-> "-"]
            /\ last_updated' = TRUE
            /\ UNCHANGED <<scanning, discovery_request_id>>
            /\ IF scanning /\ found > 0 /\ enough
               THEN \* _start_ticker_scan, lines 438-453
                    /\ EpochsLeft
                    /\ Len(tickers) < MaxWorkers
                    /\ run_id' = run_id + 1
                    /\ scan_timer' = TRUE
                    /\ sc_in_flight' = TRUE
                    /\ tickers' = TickersAfterRequest(tickers, run_id + 1, FALSE)
               ELSE UNCHANGED <<run_id, scan_timer, sc_in_flight, tickers>>
    /\ discarded' = IF ~DiscFresh(discs[i].req) THEN "discovery" ELSE "-"
    /\ UNCHANGED notSc

\* _on_discovery_failed, lines 426-436
OnDiscoveryFailed(i) ==
    /\ discs[i].st = "failed"
    /\ discs' = RemoveAt(discs, i)
    /\ IF ~DiscFresh(discs[i].req)
       THEN UNCHANGED <<scState, tickers>>
       ELSE /\ EpochsLeft
            /\ run_id' = run_id + 1
            /\ sc_in_flight' = FALSE
            /\ scan_timer' = FALSE
            /\ scanning' = FALSE
            /\ UNCHANGED <<discovery_request_id, eligible_pairs, profit_rows,
                           last_updated, tickers>>
    /\ discarded' = IF ~DiscFresh(discs[i].req) THEN "discovery" ELSE "-"
    /\ UNCHANGED notSc

\* the scan timer fires: _request_ticker_update, lines 463-489
TimerTick ==
    /\ scan_timer
    /\ ~sc_in_flight
    /\ Len(tickers) < MaxWorkers
    /\ sc_in_flight' = TRUE
    /\ tickers' = TickersAfterRequest(tickers, run_id, sc_in_flight)
    /\ UNCHANGED <<scanning, run_id, discovery_request_id, scan_timer,
                   eligible_pairs, profit_rows, last_updated, discs>>
    /\ discarded' = "-"
    /\ UNCHANGED notSc

\* TickerScanWorker.run, lines 700-722: scan raises (failed) or returns
\* (finished)
TickerEnds(i, raised) ==
    /\ tickers[i].st = "running"
    /\ tickers' = [tickers EXCEPT ![i].st = IF raised THEN "failed" ELSE "finished"]
    /\ UNCHANGED <<scState, discs>>
    /\ discarded' = "-"
    /\ UNCHANGED notSc

\* lines 499-539: a hit makes or refreshes a LIVE row, a miss fades an
\* existing row
RowsAfter(upd) ==
    [p \in Pairs |->
        IF upd = "hit" THEN "LIVE"
        ELSE IF upd = "miss" /\ profit_rows[p] # "-" THEN "FADED"
        ELSE profit_rows[p]]

\* _on_ticker_updated, lines 491-544; upd: what the result holds for the pair
OnTickerUpdated(i, upd) ==
    /\ tickers[i].st = "finished"
    /\ tickers' = RemoveAt(tickers, i)
    /\ IF ~scanning \/ ~TickerFresh(tickers[i].run)
       THEN UNCHANGED scState
       ELSE /\ sc_in_flight' = FALSE
            /\ profit_rows' = RowsAfter(upd)
            /\ last_updated' = TRUE
            /\ UNCHANGED <<scanning, run_id, discovery_request_id, scan_timer, eligible_pairs>>
    /\ UNCHANGED discs
    /\ discarded' = IF ~TickerFresh(tickers[i].run) THEN "ticker" ELSE "-"
    /\ UNCHANGED notSc

\* _on_ticker_failed, lines 546-551
OnTickerFailed(i) ==
    /\ tickers[i].st = "failed"
    /\ tickers' = RemoveAt(tickers, i)
    /\ IF ~TickerFresh(tickers[i].run)
       THEN UNCHANGED scState
       ELSE /\ sc_in_flight' = FALSE
            /\ UNCHANGED <<scanning, run_id, discovery_request_id, scan_timer,
                           eligible_pairs, profit_rows, last_updated>>
    /\ UNCHANGED discs
    /\ discarded' = IF ~TickerFresh(tickers[i].run) THEN "ticker" ELSE "-"
    /\ UNCHANGED notSc

ScannerStep ==
    \/ StartScan
    \/ StopScan
    \/ ClearScan
    \/ \E i \in 1..Len(discs), raised \in BOOLEAN : DiscoveryEnds(i, raised)
    \/ \E i \in 1..Len(discs), found \in 0..1, enough \in BOOLEAN : OnDiscoveryFinished(i, found, enough)
    \/ \E i \in 1..Len(discs) : OnDiscoveryFailed(i)
    \/ TimerTick
    \/ \E i \in 1..Len(tickers), raised \in BOOLEAN : TickerEnds(i, raised)
    \/ \E i \in 1..Len(tickers), upd \in UpdateKinds : OnTickerUpdated(i, upd)
    \/ \E i \in 1..Len(tickers) : OnTickerFailed(i)

(***************************************************************************)
(* WsManager, its provider threads and PairAnalysisWsWorker.               *)
(* A generation is one call of start_for_selected_exchanges that got as    *)
(* far as creating its event and bootstrap thread; generation g owns the   *)
(* event g, the bootstrap thread boot[g] and the providers <<g, e>>.       *)
(***************************************************************************)
Exch == {"A", "B"}
Gens == 1..MaxGen
ProvIds == Gens \X Exch

InitWs(exs) ==
    /\ p_exchanges = exs
    /\ ws_run_id = 0
    /\ ws_signals = <<>>
    /\ startup_event = 0
    /\ events_set = {}
    /\ providers = <<>>
    /\ boot = [g \in Gens |-> [pc |-> "off", idx |-> 1, run |-> 0]]
    /\ prov = [id \in ProvIds |-> [st |-> "none", stop |-> FALSE, err |-> FALSE]]
    /\ last_op = "none"

\* `self._startup_stop_event is None or self._startup_stop_event.is_set()`:
\* the attribute is read when the check runs, so every bootstrap thread
\* tests the event of the latest generation
EventStopped == startup_event = 0 \/ startup_event \in events_set

Registered(g, e) == \E k \in 1..Len(providers) : providers[k] = [e |-> e, g |-> g]

\* WsProviderBase.stop, ws_base.py lines 42-45: the flag is set, the socket
\* is closed only if run() has created it
StoppedProvider(p) == [p EXCEPT !.stop = TRUE, !.st = IF @ = "open" THEN "closed" ELSE @]

ProvAfterStop(S) == [id \in ProvIds |-> IF id \in S THEN StoppedProvider(prov[id]) ELSE prov[id]]

\* stop_all, lines 91-100, walks the copied list: provider.join raises
\* RuntimeError on a thread that was registered but not started yet, which
\* ends the loop there
Unstarted(k) == prov[<<providers[k].g, providers[k].e>>].st = "created"
JoinFails == \E k \in 1..Len(providers) : Unstarted(k)
FirstUnstarted == CHOOSE k \in 1..Len(providers) :
                      Unstarted(k) /\ \A j \in 1..(k - 1) : ~Unstarted(j)
ReachedByStopAll ==
    {<<providers[k].g, providers[k].e>> :
        k \in {j \in 1..Len(providers) : ~JoinFails \/ j <= FirstUnstarted}}

\* stop_all, lines 91-100
StopAllEffects ==
    /\ events_set' = IF startup_event = 0 THEN events_set ELSE events_set \cup {startup_event}
    /\ providers' = <<>>
    /\ prov' = ProvAfterStop(ReachedByStopAll)

\* `self._providers[exchange_name] = provider`, line 85: a dict keeps the
\* position of a key it already holds
ProvidersWith(e, g) ==
    IF \E k \in 1..Len(providers) : providers[k].e = e
    THEN [k \in 1..Len(providers) |->
             IF providers[k].e = e THEN [e |-> e, g |-> g] ELSE providers[k]]
    ELSE Append(providers, [e |-> e, g |-> g])

ProvidersWithout(e) == SelectSeq(providers, LAMBDA r : r.e # e)

\* _bootstrap, lines 63-67: first check of the loop body, then the symbol
\* is being resolved
BootCheck(g) ==
    /\ boot[g].pc = "check"
    /\ boot' = [boot EXCEPT ![g].pc =
                   IF boot[g].idx > Len(p_exchanges) \/ EventStopped THEN "done" ELSE "resolving"]
    /\ p_line' = "-"
    /\ UNCHANGED <<p_exchanges, ws_run_id, ws_signals, startup_event, events_set,
                   providers, prov, last_op>>
    /\ UNCHANGED <<pState, http_jobs>>
    /\ discarded' = "-"
    /\ UNCHANGED notPair

\* _bootstrap, lines 67-80: the symbol is resolved (or not), second check,
\* the provider object is created
BootResolved(g, found) ==
    /\ boot[g].pc = "resolving"
    /\ IF EventStopped
       THEN boot' = [boot EXCEPT ![g].pc = "done"] /\ UNCHANGED prov
       ELSE IF ~found
       THEN boot' = [boot EXCEPT ![g].pc = "check", ![g].idx = @ + 1] /\ UNCHANGED prov
       ELSE /\ boot' = [boot EXCEPT ![g].pc = "register"]
            /\ prov' = [prov EXCEPT ![<<g, p_exchanges[boot[g].idx]>>].st = "created"]
    /\ p_line' = "-"
    /\ UNCHANGED <<p_exchanges, ws_run_id, ws_signals, startup_event, events_set,
                   providers, last_op>>
    /\ UNCHANGED <<pState, http_jobs>>
    /\ discarded' = "-"
    /\ UNCHANGED notPair

\* _bootstrap, lines 81-85: under _provider_lock
BootRegister(g) ==
    /\ boot[g].pc = "register"
    /\ IF EventStopped
       THEN /\ boot' = [boot EXCEPT ![g].pc = "done"]
            /\ prov' = ProvAfterStop({<<g, p_exchanges[boot[g].idx]>>})
            /\ UNCHANGED providers
       ELSE /\ boot' = [boot EXCEPT ![g].pc = "start"]
            /\ providers' = ProvidersWith(p_exchanges[boot[g].idx], g)
            /\ UNCHANGED prov
    /\ p_line' = "-"
    /\ UNCHANGED <<p_exchanges, ws_run_id, ws_signals, startup_event, events_set, last_op>>
    /\ UNCHANGED <<pState, http_jobs>>
    /\ discarded' = "-"
    /\ UNCHANGED notPair

\* _bootstrap, line 86: provider.start()
BootStart(g) ==
    /\ boot[g].pc = "start"
    /\ boot' = [boot EXCEPT ![g].pc = "check", ![g].idx = @ + 1]
    /\ prov' = [prov EXCEPT ![<<g, p_exchanges[boot[g].idx]>>].st = "started"]
    /\ p_line' = "-"
    /\ UNCHANGED <<p_exchanges, ws_run_id, ws_signals, startup_event, events_set,
                   providers, last_op>>
    /\ UNCHANGED <<pState, http_jobs>>
    /\ discarded' = "-"
    /\ UNCHANGED notPair

\* provider run(), e.g. ws_bybit_provider.py lines 79-86: the socket is
\* created and run_forever entered without a look at _stop_event
ProviderConnects(g, e) ==
    /\ prov[<<g, e>>].st = "started"
    /\ prov' = [prov EXCEPT ![<<g, e>>].st = "open"]
    /\ p_line' = "-"
    /\ UNCHANGED <<p_exchanges, ws_run_id, ws_signals, startup_event, events_set,
                   providers, boot, last_op>>
    /\ UNCHANGED <<pState, http_jobs>>
    /\ discarded' = "-"
    /\ UNCHANGED notPair

\* on_message, e.g. ws_bybit_provider.py lines 49-77 (nothing is emitted
\* once _stop_event is set), then PairAnalysisWsWorker._on_quote, lines
\* 86-101: the signal carries the worker's _run_id at the time of the emit
ProviderQuote(g, e) ==
    /\ prov[<<g, e>>].st = "open"
    /\ ~prov[<<g, e>>].stop
    /\ Len(ws_signals) < MaxSignals
    /\ ws_signals' = Append(ws_signals, [kind |-> "quote", run |-> ws_run_id, e |-> e, g |-> g])
    /\ p_line' = "-"
    /\ UNCHANGED <<p_exchanges, ws_run_id, startup_event, events_set, providers,
                   boot, prov, last_op>>
    /\ UNCHANGED <<pState, http_jobs>>
    /\ discarded' = "-"
    /\ UNCHANGED notPair

\* the provider that _wrap_error's handler pops: the one registered under
\* the exchange NAME, whichever generation made it (line 105)
Popped(e) == {<<providers[k].g, e>> : k \in {j \in 1..Len(providers) : providers[j].e = e}}

\* on_error with _emit_error (ws_base.py lines 59-65, once per provider),
\* _wrap_error's handler (ws_manager.py lines 102-111) and
\* PairAnalysisWsWorker._on_error (lines 103-104).  closes: a transport error ends run_forever, an error
\* raised while a message is handled leaves the socket open.
ProviderError(g, e, closes) ==
    /\ prov[<<g, e>>].st = "open"
    /\ ~prov[<<g, e>>].err
    /\ Len(ws_signals) < MaxSignals
    /\ providers' = ProvidersWithout(e)
    /\ prov' = [id \in ProvIds |->
                   IF id = <<g, e>>
                   THEN [st |-> IF closes \/ id \in Popped(e) THEN "closed" ELSE "open",
                         stop |-> prov[id].stop \/ id \in Popped(e),
                         err |-> TRUE]
                   ELSE IF id \in Popped(e) THEN StoppedProvider(prov[id])
                   ELSE prov[id]]
    /\ ws_signals' = Append(ws_signals, [kind |-> "error", run |-> ws_run_id, e |-> e, g |-> g])
    /\ p_line' = "-"
    /\ UNCHANGED <<p_exchanges, ws_run_id, startup_event, events_set, boot, last_op>>
    /\ UNCHANGED <<pState, http_jobs>>
    /\ discarded' = "-"
    /\ UNCHANGED notPair

(***************************************************************************)
(* PairAnalysisWindow: handlers of the GUI thread, the HTTP fallback job   *)
(* it submits to the update controller, and the signals queued to it.      *)
(***************************************************************************)
InitPair ==
    /\ p_run_id = 0
    /\ p_in_flight = FALSE
    /\ fallback_active = FALSE
    /\ analysis_status = "PAUSE"
    /\ start_enabled = TRUE
    /\ ws_last_update = "none"
    /\ ws_started = "none"
    /\ ws_entry_map = {}
    /\ bad_updates_streak = 0
    /\ fallback_timer = FALSE
    /\ p_line = "-"
    /\ http_jobs = <<>>
    /\ discarded = "-"

\* the streak is only ever compared with the limit of line 411
StreakAfterBad == IF bad_updates_streak < BadLimit THEN bad_updates_streak + 1 ELSE BadLimit

\* _apply_snapshot, lines 407-412
AutoPauses(valid) == ~valid /\ StreakAfterBad >= BadLimit

\* the key "pair-http-<symbol>" is in SafeUpdateController._in_flight
KeyHeld == \E i \in 1..Len(http_jobs) : http_jobs[i].held

\* _start_http_fallback, lines 499-525, gets as far as a submit that the
\* controller accepts
FallbackSubmits(inflight0, wslast0) == ~inflight0 /\ wslast0 # "fresh" /\ ~KeyHeld

\* _start_http_fallback without the test of lines 502-505 on the age of the
\* last streaming update
FallbackIgnoringStream(inflight0, fallback0, wslast0, run0) ==
    IF inflight0
    THEN p_in_flight' = inflight0 /\ fallback_active' = fallback0 /\ UNCHANGED http_jobs
    ELSE IF KeyHeld
    THEN p_in_flight' = FALSE /\ fallback_active' = TRUE /\ UNCHANGED http_jobs
    ELSE /\ Len(http_jobs) < MaxWorkers
         /\ p_in_flight' = TRUE
         /\ fallback_active' = TRUE
         /\ http_jobs' = Append(http_jobs, [run |-> run0, st |-> "running", held |-> TRUE])

\* _start_http_fallback, lines 499-525, entered with the given values of
\* _in_flight, _fallback_active, _ws_last_update_ts and _run_id
Fallback(inflight0, fallback0, wslast0, run0) ==
    IF inflight0 \/ wslast0 = "fresh"
    THEN p_in_flight' = inflight0 /\ fallback_active' = fallback0 /\ UNCHANGED http_jobs
    ELSE IF KeyHeld
    THEN p_in_flight' = FALSE /\ fallback_active' = TRUE /\ UNCHANGED http_jobs
    ELSE /\ Len(http_jobs) < MaxWorkers
         /\ p_in_flight' = TRUE
         /\ fallback_active' = TRUE
         /\ http_jobs' = Append(http_jobs, [run |-> run0, st |-> "running", held |-> TRUE])

\* _pause_worker, lines 308-320, from _bump_run_id on; a RuntimeError out
\* of stop_all ends the handler, leaving the status it had (abortStatus)
PauseBody(abortStatus) ==
    /\ p_run_id' = p_run_id + 1
    /\ p_in_flight' = FALSE
    /\ fallback_active' = FALSE
    /\ StopAllEffects
    /\ last_op' = IF JoinFails THEN "stop_raised" ELSE "stop"
    /\ IF JoinFails
       THEN UNCHANGED <<fallback_timer, start_enabled>> /\ analysis_status' = abortStatus
       ELSE fallback_timer' = FALSE /\ start_enabled' = TRUE /\ analysis_status' = "PAUSE"

\* _start_worker, lines 286-306, with PairAnalysisWsWorker.start (lines
\* 78-81) and start_for_selected_exchanges (lines 58-89), apart from
\* _in_flight and _fallback_active
StartBody ==
    /\ p_run_id' = p_run_id + 1
    /\ ws_entry_map' = {}
    /\ ws_last_update' = "none"
    /\ ws_started' = "fresh"
    /\ ws_run_id' = p_run_id + 1
    /\ StopAllEffects
    /\ IF JoinFails
       THEN /\ last_op' = "stop_raised"
            /\ UNCHANGED <<startup_event, boot, fallback_timer, start_enabled,
                           bad_updates_streak, analysis_status>>
       ELSE /\ last_op' = "start"
            /\ startup_event' = startup_event + 1
            /\ boot' = [boot EXCEPT ![startup_event + 1] =
                           [pc |-> "check", idx |-> 1, run |-> p_run_id + 1]]
            /\ fallback_timer' = TRUE
            /\ start_enabled' = FALSE
            /\ bad_updates_streak' = 0
            /\ analysis_status' = "STALE"

\* the start button: _start_worker, lines 286-306
PairStart ==
    /\ start_enabled
    /\ EpochsLeft /\ startup_event < MaxGen
    /\ StartBody
    /\ p_in_flight' = FALSE
    /\ fallback_active' = FALSE
    /\ p_line' = "-"
    /\ UNCHANGED <<http_jobs, p_exchanges, ws_signals>>
    /\ discarded' = "-"
    /\ UNCHANGED notPair

\* the stop button: _pause_worker, lines 308-320
PairPause ==
    /\ ~start_enabled
    /\ EpochsLeft
    /\ PauseBody(analysis_status)
    /\ p_line' = "-"
    /\ UNCHANGED <<ws_last_update, ws_started, ws_entry_map, bad_updates_streak, http_jobs>>
    /\ UNCHANGED <<p_exchanges, ws_run_id, ws_signals, startup_event, boot>>
    /\ discarded' = "-"
    /\ UNCHANGED notPair

\* the refresh button: _refresh_worker, lines 335-340
PairRefresh ==
    /\ IF ~start_enabled
       THEN /\ Fallback(p_in_flight, fallback_active, ws_last_update, p_run_id)
            /\ p_line' = IF FallbackSubmits(p_in_flight, ws_last_update) THEN "http" ELSE "-"
            /\ UNCHANGED <<p_run_id, analysis_status, start_enabled, ws_last_update, ws_started,
                           ws_entry_map, bad_updates_streak, fallback_timer>>
            /\ UNCHANGED <<ws_run_id, startup_event, events_set, providers, boot, prov, last_op>>
       ELSE /\ EpochsLeft /\ startup_event < MaxGen
            /\ StartBody
            /\ IF JoinFails
               THEN p_in_flight' = FALSE /\ fallback_active' = FALSE
                    /\ p_line' = "-" /\ UNCHANGED http_jobs
               ELSE Fallback(FALSE, FALSE, "none", p_run_id + 1)
                    /\ p_line' = IF FallbackSubmits(FALSE, "none") THEN "http" ELSE "-"
    /\ UNCHANGED <<p_exchanges, ws_signals>>
    /\ discarded' = "-"
    /\ UNCHANGED notPair

\* the time stamp _check_ws_staleness measures from, line 531
StalenessBase == IF ws_last_update # "none" THEN ws_last_update ELSE ws_started

\* the fallback timer: _check_ws_staleness, lines 527-538
FallbackTick ==
    /\ fallback_timer
    /\ IF ~start_enabled /\ StalenessBase = "stale" /\ ~fallback_active
       THEN /\ analysis_status' = "STALE"
            /\ Fallback(p_in_flight, fallback_active, ws_last_update, p_run_id)
            /\ p_line' = IF FallbackSubmits(p_in_flight, ws_last_update) THEN "http" ELSE "-"
       ELSE /\ p_line' = "-"
            /\ UNCHANGED <<analysis_status, p_in_flight, fallback_active, http_jobs>>
    /\ UNCHANGED <<p_run_id, start_enabled, ws_last_update, ws_started, ws_entry_map,
                   bad_updates_streak, fallback_timer>>
    /\ UNCHANGED wsVars
    /\ discarded' = "-"
    /\ UNCHANGED notPair

\* _ws_stale_ms (3000 ms, line 137) go by since the older of the two time
\* stamps that are still fresh
TimePasses ==
    /\ \/ ws_started = "fresh" /\ ws_started' = "stale" /\ UNCHANGED ws_last_update
       \/ ws_started # "fresh" /\ ws_last_update = "fresh"
             /\ ws_last_update' = "stale" /\ UNCHANGED ws_started
    /\ p_line' = "-"
    /\ UNCHANGED <<p_run_id, p_in_flight, fallback_active, analysis_status, start_enabled,
                   ws_entry_map, bad_updates_streak, fallback_timer, http_jobs>>
    /\ UNCHANGED wsVars
    /\ discarded' = "-"
    /\ UNCHANGED notPair

\* SafeUpdateController._done, update_controller.py lines 50-56: the pool
\* thread emits succeeded or failed; heard: the window had connected its
\* slots (lines 521-522 of the window) before the emit; a signal emitted
\* with no slot connected reaches nobody
JobEnds(i, ok, heard) ==
    /\ http_jobs[i].st = "running"
    /\ http_jobs' = [http_jobs EXCEPT ![i].st = IF ~heard THEN "lost" ELSE IF ok THEN "ok" ELSE "fail"]
    /\ p_line' = "-"
    /\ UNCHANGED pState
    /\ UNCHANGED wsVars
    /\ discarded' = "-"
    /\ UNCHANGED notPair

\* SafeUpdateController._done, update_controller.py lines 57-60
JobRelease(i) ==
    /\ http_jobs[i].st # "running"
    /\ http_jobs[i].held
    /\ http_jobs' = IF http_jobs[i].st \in {"gone", "lost"} THEN RemoveAt(http_jobs, i)
                    ELSE [http_jobs EXCEPT ![i].held = FALSE]
    /\ p_line' = "-"
    /\ UNCHANGED pState
    /\ UNCHANGED wsVars
    /\ discarded' = "-"
    /\ UNCHANGED notPair

\* the job's signal has been handled
JobsAfterDelivery(i) ==
    IF http_jobs[i].held THEN [http_jobs EXCEPT ![i].st = "gone"] ELSE RemoveAt(http_jobs, i)

HttpFreshAlways(run) == TRUE
\* lines 343 and 350: `if run_id != self._run_id: return`
HttpFresh(run) == run = p_run_id

WsFreshAlways(run) == TRUE
\* lines 360 and 378: `if run_id != self._run_id: return`
WsFresh(run) == run = p_run_id

\* _apply_snapshot, lines 406-429, when it does not pause: valid data
\* resets the streak and sets the status (HTTP data is always STALE),
\* changed: the summary differs from the last one, so a line is appended
ApplyNoPause(valid, status, changed) ==
    /\ bad_updates_streak' = IF valid THEN 0 ELSE StreakAfterBad
    /\ analysis_status' = IF valid THEN status ELSE "ERROR"
    /\ p_line' = IF ~valid THEN "error" ELSE IF changed THEN "data" ELSE "-"
    /\ UNCHANGED <<p_run_id, fallback_timer, start_enabled>>
    /\ UNCHANGED <<events_set, providers, prov, last_op>>

\* _apply_snapshot, lines 407-412, on the fifth bad update in a row:
\* _auto_pause_for_bad_data, lines 657-662
ApplyAutoPause ==
    /\ EpochsLeft
    /\ bad_updates_streak' = StreakAfterBad
    /\ PauseBody("ERROR")
    /\ p_line' = IF JoinFails THEN "error" ELSE "auto-pause"

\* _on_http_snapshot, lines 342-347; valid: the snapshot has usable data
\* of two exchanges (_has_valid_data, lines 638-651)
OnHttpSnapshot(i, valid, changed) ==
    /\ http_jobs[i].st = "ok"
    /\ http_jobs' = JobsAfterDelivery(i)
    /\ IF ~HttpFresh(http_jobs[i].run)
       THEN UNCHANGED pState /\ p_line' = "-"
            /\ UNCHANGED <<events_set, providers, prov, last_op>>
       ELSE /\ IF AutoPauses(valid)
               THEN ApplyAutoPause
               ELSE /\ ApplyNoPause(valid, "STALE", changed)
                    /\ p_in_flight' = FALSE
                    /\ UNCHANGED fallback_active
            /\ UNCHANGED <<ws_last_update, ws_started, ws_entry_map>>
    /\ UNCHANGED <<p_exchanges, ws_run_id, ws_signals, startup_event, boot>>
    /\ discarded' = IF ~HttpFresh(http_jobs[i].run) THEN "http" ELSE "-"
    /\ UNCHANGED notPair

\* _on_http_failed, lines 349-357
OnHttpFailed(i) ==
    /\ http_jobs[i].st = "fail"
    /\ http_jobs' = JobsAfterDelivery(i)
    /\ IF ~HttpFresh(http_jobs[i].run)
       THEN UNCHANGED pState /\ p_line' = "-"
       ELSE /\ p_in_flight' = FALSE
            /\ analysis_status' = "ERROR"
            /\ p_line' = "error"
            /\ UNCHANGED <<p_run_id, fallback_active, start_enabled, ws_last_update, ws_started,
                           ws_entry_map, bad_updates_streak, fallback_timer>>
    /\ UNCHANGED wsVars
    /\ discarded' = IF ~HttpFresh(http_jobs[i].run) THEN "http" ELSE "-"
    /\ UNCHANGED notPair

\* _on_ws_quote, lines 359-375; live: the spread reaches the threshold
OnWsQuote(live, changed) ==
    /\ ws_signals # <<>>
    /\ Head(ws_signals).kind = "quote"
    /\ ws_signals' = Tail(ws_signals)
    /\ IF ~WsFresh(Head(ws_signals).run)
       THEN UNCHANGED pState /\ p_line' = "-"
            /\ UNCHANGED <<events_set, providers, prov, last_op>>
       ELSE /\ ws_last_update' = "fresh"
            /\ ws_entry_map' = ws_entry_map \cup {Head(ws_signals).e}
            /\ UNCHANGED ws_started
            /\ IF AutoPauses(Cardinality(ws_entry_map \cup {Head(ws_signals).e}) >= 2)
               THEN ApplyAutoPause
               ELSE /\ ApplyNoPause(Cardinality(ws_entry_map \cup {Head(ws_signals).e}) >= 2,
                                    IF live THEN "LIVE" ELSE "STALE", changed)
                    /\ fallback_active' = FALSE
                    /\ UNCHANGED p_in_flight
    /\ UNCHANGED <<p_exchanges, ws_run_id, startup_event, boot, http_jobs>>
    /\ discarded' = IF ~WsFresh(Head(ws_signals).run) THEN "stream" ELSE "-"
    /\ UNCHANGED notPair

\* _on_ws_error, lines 377-385
OnWsError ==
    /\ ws_signals # <<>>
    /\ Head(ws_signals).kind = "error"
    /\ ws_signals' = Tail(ws_signals)
    /\ IF ~WsFresh(Head(ws_signals).run)
       THEN UNCHANGED pState /\ p_line' = "-" /\ UNCHANGED http_jobs
       ELSE /\ analysis_status' = "ERROR"
            /\ p_line' = "ws-error"
            /\ IF ~fallback_active
               THEN Fallback(p_in_flight, fallback_active, ws_last_update, p_run_id)
               ELSE UNCHANGED <<p_in_flight, fallback_active, http_jobs>>
            /\ UNCHANGED <<p_run_id, start_enabled, ws_last_update, ws_started, ws_entry_map,
                           bad_updates_streak, fallback_timer>>
    /\ UNCHANGED <<p_exchanges, ws_run_id, startup_event, events_set, providers, boot,
                   prov, last_op>>
    /\ discarded' = IF ~WsFresh(Head(ws_signals).run) THEN "stream" ELSE "-"
    /\ UNCHANGED notPair

BootstrapStep == \E g \in Gens : BootCheck(g)

StreamingStep ==
    \/ \E g \in Gens, found \in BOOLEAN : BootResolved(g, found)
    \/ \E g \in Gens : BootRegister(g)
    \/ \E g \in Gens : BootStart(g)
    \/ \E g \in Gens, e \in Exch : ProviderConnects(g, e)
    \/ \E g \in Gens, e \in Exch : ProviderQuote(g, e)
    \/ \E g \in Gens, e \in Exch, closes \in BOOLEAN : ProviderError(g, e, closes)
    \/ \E live \in BOOLEAN, changed \in BOOLEAN : OnWsQuote(live, changed)
    \/ OnWsError

WindowStep ==
    \/ PairStart
    \/ PairPause
    \/ PairRefresh
    \/ FallbackTick
    \/ TimePasses
    \/ \E i \in 1..Len(http_jobs), ok \in BOOLEAN, heard \in BOOLEAN : JobEnds(i, ok, heard)
    \/ \E i \in 1..Len(http_jobs) : JobRelease(i)
    \/ \E i \in 1..Len(http_jobs), valid \in BOOLEAN, changed \in BOOLEAN :
          OnHttpSnapshot(i, valid, changed)
    \/ \E i \in 1..Len(http_jobs) : OnHttpFailed(i)

(***************************************************************************)
(* Claims about the windows and the streaming manager                      *)
(***************************************************************************)
StaleTickerStep(i) ==
    /\ tickers[i].st \in {"finished", "failed"}
    /\ tickers[i].run # run_id
    /\ tickers' = RemoveAt(tickers, i)

StaleDiscoveryStep(i) ==
    /\ discs[i].st \in {"finished", "failed"}
    /\ discs[i].req # discovery_request_id
    /\ discs' = RemoveAt(discs, i)

StaleHttpStep(i) ==
    /\ http_jobs[i].st \in {"ok", "fail"}
    /\ http_jobs[i].run # p_run_id
    /\ http_jobs' = JobsAfterDelivery(i)

\* C3: a scan result or failure, a discovery result or failure, or a pair
\* HTTP snapshot or failure whose captured run/request id differs from the
\* current one is discarded: the step that handles it changes no field of
\* the scanner window (rows, catalogue, in-flight flag, status) and none of
\* the pair window (in-flight flag, status, entries), and appends no
\* history line.
C3_StaleDiscarded ==
    [][/\ \A i \in 1..Len(tickers) : StaleTickerStep(i) => UNCHANGED <<scState, discs, pState>>
       /\ \A i \in 1..Len(discs) : StaleDiscoveryStep(i) => UNCHANGED <<scState, tickers, pState>>
       /\ \A i \in 1..Len(http_jobs) :
             StaleHttpStep(i) => UNCHANGED <<pState, scState>> /\ p_line' = "-"]_vars

\* a stale ticker result has just been dropped by its handler while a
\* stale HTTP completion of the pair window waits to be handled
C3_Witness ==
    /\ discarded = "ticker"
    /\ \E i \in 1..Len(http_jobs) :
          http_jobs[i].st \in {"ok", "fail"} /\ http_jobs[i].run # p_run_id

\* C5: at no time are two ticker-scan cycles of the scanner in flight
\* together.
C5_OneCycleInFlight ==
    Cardinality({i \in 1..Len(tickers) : tickers[i].st = "running"}) <= 1

\* C6: once start_for_selected_exchanges has been called again, no
\* connection created for an earlier call is registered or running
\* without having been told to stop.
C6_PreviousSetStopped ==
    \A g \in Gens, e \in Exch :
        g < startup_event =>
            /\ ~Registered(g, e)
            /\ ~(prov[<<g, e>>].st \in {"started", "open"} /\ ~prov[<<g, e>>].stop)

\* C7: when a connection reports an error, every other connection keeps
\* its registration and its state.
C7_ErrorIsolated ==
    [][\A id \in ProvIds :
          (~prov[id].err /\ prov'[id].err) =>
              \A other \in ProvIds \ {id} :
                  /\ prov'[other] = prov[other]
                  /\ Registered(other[1], other[2]) => Registered(other[1], other[2])']_vars

\* C8: after stop_all has returned and no start followed, no connection
\* of the preceding start is registered or holds an open socket.
C8_StoppedMeansClosed ==
    (last_op = "stop" /\ startup_event \in Gens) =>
        \A e \in Exch :
            /\ ~Registered(startup_event, e)
            /\ prov[<<startup_event, e>>].st # "open"

\* C9: a streaming quote or error of a connection that was started under
\* an earlier run epoch than the current one changes neither the entries
\* nor the status nor the fallback state of the pair window.
C9_OldEpochStreamDiscarded ==
    [][(/\ ws_signals # <<>>
        /\ ws_signals' = Tail(ws_signals)
        /\ boot[Head(ws_signals).g].run < p_run_id)
          => UNCHANGED <<ws_entry_map, analysis_status, fallback_active>>]_vars

(***************************************************************************)
(* TickerScanService refresh throttling for one (exchange, symbol).        *)
(* _symbol_last_fetch is a class attribute: every service object, hence    *)
(* every scan cycle and every pair fallback fetch, reads and writes the    *)
(* same entry, without a lock.  Time is a clock of whole seconds.          *)
(***************************************************************************)
ScanThreads == {"s1", "s2"}
NoTime == -1

InitThrottle ==
    /\ clock = 0
    /\ symbol_last_fetch = NoTime
    /\ scan = [t \in ScanThreads |-> [pc |-> "idle", now |-> 0]]
    /\ pair_fetch = [pc |-> "idle", now |-> 0]
    /\ fetched_at = NoTime

IsSymbolDueAlways(now) == TRUE
\* _is_symbol_due, lines 292-296
IsSymbolDue(now) ==
    \/ symbol_last_fetch = NoTime
    \/ now - symbol_last_fetch >= MinSymbolRefresh

\* time.monotonic() advances
ClockTick ==
    /\ clock < MaxClock
    /\ clock' = clock + 1
    /\ UNCHANGED <<symbol_last_fetch, scan, pair_fetch, fetched_at>>
    /\ UNCHANGED notThr

\* scan, line 89: `now = time.monotonic()` at the start of the cycle
ScanBegin(t) ==
    /\ scan[t].pc = "idle"
    /\ scan' = [scan EXCEPT ![t] = [pc |-> "check", now |-> clock]]
    /\ UNCHANGED <<clock, symbol_last_fetch, pair_fetch, fetched_at>>
    /\ UNCHANGED notThr

\* scan, lines 125-133 and 151-153: the due test with the cycle's `now`;
\* a symbol that is not due is left out of the cycle
ScanDueCheck(t) ==
    /\ scan[t].pc = "check"
    /\ scan' = [scan EXCEPT ![t] = IF IsSymbolDue(scan[t].now)
                                   THEN [pc |-> "fetch", now |-> scan[t].now]
                                   ELSE [pc |-> "idle", now |-> 0]]
    /\ UNCHANGED <<clock, symbol_last_fetch, pair_fetch, fetched_at>>
    /\ UNCHANGED notThr

\* scan, lines 134-136 and 155-157: the gateway call, made when the loop
\* gets to this exchange and a limiter slot is free; it returns a ticker
\* (ok) or fails, which ends the symbol's part in the cycle unmarked
ScanFetch(t, ok) ==
    /\ scan[t].pc = "fetch"
    /\ scan' = [scan EXCEPT ![t] = IF ok THEN [pc |-> "mark", now |-> scan[t].now]
                                   ELSE [pc |-> "idle", now |-> 0]]
    /\ fetched_at' = IF ok THEN clock ELSE fetched_at
    /\ UNCHANGED <<clock, symbol_last_fetch, pair_fetch>>
    /\ UNCHANGED notThr

\* scan, lines 148 and 165, _mark_symbol_fetched, lines 298-299: the entry
\* gets the cycle's `now`
ScanMark(t) ==
    /\ scan[t].pc = "mark"
    /\ symbol_last_fetch' = scan[t].now
    /\ scan' = [scan EXCEPT ![t] = [pc |-> "idle", now |-> 0]]
    /\ UNCHANGED <<clock, pair_fetch, fetched_at>>
    /\ UNCHANGED notThr

\* fetch_pair_tickers, line 231: `now = time.monotonic()`; no due test
PairFetchBegin ==
    /\ pair_fetch.pc = "idle"
    /\ pair_fetch' = [pc |-> "fetch", now |-> clock]
    /\ UNCHANGED <<clock, symbol_last_fetch, scan, fetched_at>>
    /\ UNCHANGED notThr

\* fetch_pair_tickers, lines 256-273: the gateway call
PairFetchCall(ok) ==
    /\ pair_fetch.pc = "fetch"
    /\ pair_fetch' = IF ok THEN [pc |-> "mark", now |-> pair_fetch.now]
                     ELSE [pc |-> "idle", now |-> 0]
    /\ fetched_at' = IF ok THEN clock ELSE fetched_at
    /\ UNCHANGED <<clock, symbol_last_fetch, scan>>
    /\ UNCHANGED notThr

\* fetch_pair_tickers, line 274
PairFetchMark ==
    /\ pair_fetch.pc = "mark"
    /\ symbol_last_fetch' = pair_fetch.now
    /\ pair_fetch' = [pc |-> "idle", now |-> 0]
    /\ UNCHANGED <<clock, scan, fetched_at>>
    /\ UNCHANGED notThr

ThrottleStep ==
    \/ ClockTick
    \/ \E t \in ScanThreads : ScanBegin(t)
    \/ \E t \in ScanThreads : ScanDueCheck(t)
    \/ \E t \in ScanThreads, ok \in BOOLEAN : ScanFetch(t, ok)
    \/ \E t \in ScanThreads : ScanMark(t)
    \/ PairFetchBegin
    \/ \E ok \in BOOLEAN : PairFetchCall(ok)
    \/ PairFetchMark

\* C18: the outcome of every accepted job is delivered to the handlers the
\* caller attaches to the returned handle, however the end of the task and
\* the attaching interleave: no job of the pair window ends with its
\* succeeded / failed signal emitted to nobody, so the in-flight flag of
\* its epoch is cleared by its outcome.
C18_OutcomeDelivered == \A i \in 1..Len(http_jobs) : http_jobs[i].st # "lost"

\* C10: a symbol whose ticker was fetched from the gateway at time T is
\* not fetched before T + 4 s by a scan cycle that began after T,
\* whichever operation made the earlier fetch.
C10_NoEarlyRefetch ==
    [][\A t \in ScanThreads :
          (/\ scan[t].pc = "fetch" /\ scan'[t].pc = "mark"
           /\ fetched_at # NoTime /\ scan[t].now > fetched_at)
              => clock >= fetched_at + MinSymbolRefresh]_vars

(***************************************************************************)
(* MarketDiscoveryService.discover (market_discovery.py lines 54-117), run *)
(* by MarketDiscoveryWorker.run (scanner_window.py lines 654-669) on its   *)
(* own thread; the GUI thread may call cancel() at any moment.             *)
(***************************************************************************)
\* exchange labels and symbols, each in the order sorted() gives them
LabelOrder == <<"A", "B", "C", "Z">>
SymbolOrder == <<"AAA/EUR", "AAA/USDT", "AAA/USDT:USDT", "BBB/USDT">>
DiscLabels == {LabelOrder[i] : i \in DOMAIN LabelOrder}
DiscSymbols == {SymbolOrder[i] : i \in DOMAIN SymbolOrder}

\* line 76: hasattr(ccxt, exchange_id); "Z" is a label ccxt has no class for
Supported(e) == e # "Z"

\* the quotes argument, upper-cased (line 66)
QuotesSet == {"USDT"}

\* a market of a catalogue, by the fields _filter_markets reads; plain: the
\* symbol holds "/" and no ":" (each symbol here holds one "/");
\* contract: contract, future or swap is True; spot, active: the field is
\* not False; margin: the market's margin field is True, which
\* _filter_markets never reads; quote: the quote field, "" when it is missing
Market(sym, pl, co, sp, ac, qu) ==
    [symbol |-> sym, plain |-> pl, contract |-> co, spot |-> sp, active |-> ac, quote |-> qu,
     margin |-> FALSE]

mA == Market("AAA/USDT", TRUE, FALSE, TRUE, TRUE, "USDT")
mB == Market("BBB/USDT", TRUE, FALSE, TRUE, TRUE, "USDT")
mBInactive == Market("BBB/USDT", TRUE, FALSE, TRUE, FALSE, "USDT")
mSwap == Market("AAA/USDT:USDT", FALSE, TRUE, FALSE, TRUE, "USDT")
mEur == Market("AAA/EUR", TRUE, FALSE, TRUE, TRUE, "EUR")
\* a spot market that can be traded on margin, one whose quote field is in
\* lower case, one without a quote field
mAMargin == [mA EXCEPT !.margin = TRUE]
mBLower == Market("BBB/USDT", TRUE, FALSE, TRUE, TRUE, "usdt")
mBNoQuote == Market("BBB/USDT", TRUE, FALSE, TRUE, TRUE, "")

CatalogueChoices ==
    {{}, {mA}, {mA, mB}, {mA, mBInactive, mSwap}, {mB, mEur}, {mAMargin, mBLower},
     {mA, mBNoQuote}}
DiscLists == {<<"A", "B", "C">>, <<"C", "A", "B">>, <<"B", "Z", "A">>, <<"B">>}
MinExchangesChoices == {1, 2}

\* str.upper on the quote currencies of the catalogues
UpperQuote(quote) == IF quote = "usdt" THEN "USDT" ELSE quote

\* _split_symbol, lines 161-166, second part: what follows the first "/"
SplitQuote(symbol) ==
    CASE symbol = "AAA/EUR" -> "EUR"
      [] symbol = "AAA/USDT" -> "USDT"
      [] symbol = "AAA/USDT:USDT" -> "USDT:USDT"
      [] symbol = "BBB/USDT" -> "USDT"

\* lines 142-146: the quote field, or the quote part of the symbol
QuoteOf(m) == IF m.quote = "" THEN SplitQuote(m.symbol) ELSE m.quote

PassesFilterIgnoringActive(m, quotes_set) ==
    m.plain /\ ~m.contract /\ m.spot /\ UpperQuote(QuoteOf(m)) \in quotes_set
\* _filter_markets, lines 129-151: the tests a market goes through
PassesFilter(m, quotes_set) ==
    /\ m.plain
    /\ ~m.contract
    /\ m.spot
    /\ m.active
    /\ UpperQuote(QuoteOf(m)) \in quotes_set

\* _filter_markets, lines 120-159: the set `filtered`
FilterMarkets(markets, quotes_set) ==
    {m.symbol : m \in {x \in markets : PassesFilter(x, quotes_set)}}

\* sorted(S) for a set of labels or of symbols
SortedBy(order, S) == SelectSeq(order, LAMBDA x : x \in S)

NoDiscResult == <<>>

\* all catalogues, the argument lists and the thresholds are inputs
InitDiscover(lists, cats, mins) ==
    /\ d_exchanges \in lists
    /\ d_min \in mins
    /\ d_catalogue \in {c \in [DiscLabels -> cats] : \A e \in DiscLabels : ~Supported(e) => c[e] = {}}
    /\ d_pc = "check"
    /\ d_idx = 1
    /\ d_cancelled = FALSE
    /\ d_pairs = [s \in DiscSymbols |-> {}]
    /\ d_counts = <<>>
    /\ d_failed = {}
    /\ d_result = NoDiscResult
    /\ d_emitted = "none"
    /\ d_cache = [e \in DiscLabels |-> "unknown"]

IsCancelledNever == FALSE
\* MarketDiscoveryWorker._is_cancelled, scanner_window.py lines 671-672
IsCancelled == d_cancelled

\* discover, lines 92-108: filter the markets of exchange e and add them
ProcessMarkets(e) ==
    LET filtered == FilterMarkets(d_catalogue[e], QuotesSet) IN
    /\ d_counts' = [x \in DOMAIN d_counts \cup {e} |->
                       IF x = e THEN Cardinality(filtered) ELSE d_counts[x]]
    /\ d_pairs' = [s \in DiscSymbols |-> IF s \in filtered THEN d_pairs[s] \cup {e} ELSE d_pairs[s]]
    /\ d_idx' = d_idx + 1
    /\ d_pc' = "check"

\* what the cache directory may hold for an exchange: no readable file, a
\* file saved lately, a file saved long ago
CacheFiles == {"absent", "fresh", "stale"}
\* MarketCache.load: the markets of the file, or None
CacheLoad(file) == file # "absent"

\* discover, lines 72-83: the head of the loop; file: what cache.load finds
\* on disk for the exchange (as found before, if discover looked before)
DiscCheck(file) ==
    /\ d_pc = "check"
    /\ IF d_idx > Len(d_exchanges) \/ IsCancelled
       THEN d_pc' = "return" /\ UNCHANGED <<d_idx, d_pairs, d_counts, d_cache>>
       ELSE IF ~Supported(d_exchanges[d_idx])
       THEN d_idx' = d_idx + 1 /\ UNCHANGED <<d_pc, d_pairs, d_counts, d_cache>>
       ELSE /\ d_cache[d_exchanges[d_idx]] \in {"unknown", file}
            /\ d_cache' = [d_cache EXCEPT ![d_exchanges[d_idx]] = file]
            /\ IF CacheLoad(file)
               THEN ProcessMarkets(d_exchanges[d_idx])
               ELSE d_pc' = "load" /\ UNCHANGED <<d_idx, d_pairs, d_counts>>
    /\ UNCHANGED <<d_exchanges, d_min, d_catalogue, d_cancelled, d_failed, d_result, d_emitted>>
    /\ UNCHANGED notDisc

\* discover, lines 90-91: exchange.load_markets() returns (ok) and the
\* markets are saved to the cache, or it raises; no
\* handler in discover: the exception reaches run, lines 664-666, which
\* emits failed
DiscLoadEnds(ok) ==
    /\ d_pc = "load"
    /\ IF ok
       THEN /\ ProcessMarkets(d_exchanges[d_idx])
            /\ d_cache' = [d_cache EXCEPT ![d_exchanges[d_idx]] = "fresh"]
            /\ UNCHANGED <<d_failed, d_emitted>>
       ELSE /\ d_failed' = d_failed \cup {d_exchanges[d_idx]}
            /\ d_emitted' = "failed"
            /\ d_pc' = "done"
            /\ UNCHANGED <<d_idx, d_pairs, d_counts, d_cache>>
    /\ UNCHANGED <<d_exchanges, d_min, d_catalogue, d_cancelled, d_result>>
    /\ UNCHANGED notDisc

\* discover, lines 110-117: the result
DiscResult ==
    [pair_exchanges |->
        [s \in {x \in DiscSymbols : d_pairs[x] # {}} |-> SortedBy(LabelOrder, d_pairs[s])],
     eligible_pairs |->
        SortedBy(SymbolOrder,
                 {s \in DiscSymbols : d_pairs[s] # {} /\ Cardinality(d_pairs[s]) >= d_min}),
     exchange_counts |-> d_counts]

DiscReturn ==
    /\ d_pc = "return"
    /\ d_result' = <<DiscResult>>
    /\ d_pc' = "returned"
    /\ UNCHANGED <<d_exchanges, d_min, d_catalogue, d_cache, d_idx, d_cancelled, d_pairs, d_counts,
                   d_failed, d_emitted>>
    /\ UNCHANGED notDisc

\* run, lines 667-669
DiscEmit ==
    /\ d_pc = "returned"
    /\ d_emitted' = IF d_cancelled THEN "none" ELSE "finished"
    /\ d_pc' = "done"
    /\ UNCHANGED <<d_exchanges, d_min, d_catalogue, d_cache, d_idx, d_cancelled, d_pairs, d_counts,
                   d_failed, d_result>>
    /\ UNCHANGED notDisc

\* MarketDiscoveryWorker.cancel, lines 651-652, called by the GUI thread
DiscCancel ==
    /\ ~d_cancelled
    /\ d_pc # "done"
    /\ d_cancelled' = TRUE
    /\ UNCHANGED <<d_exchanges, d_min, d_catalogue, d_cache, d_pc, d_idx, d_pairs, d_counts,
                   d_failed, d_result, d_emitted>>
    /\ UNCHANGED notDisc

DiscoverStep ==
    \/ \E file \in CacheFiles : DiscCheck(file)
    \/ \E ok \in BOOLEAN : DiscLoadEnds(ok)
    \/ DiscReturn
    \/ DiscEmit
    \/ DiscCancel

(***************************************************************************)
(* Claims about discovery (checked under SpecDiscover)                     *)
(***************************************************************************)
\* the labels of the list given to discover
GivenExchanges == {d_exchanges[i] : i \in DOMAIN d_exchanges}

\* C11: if loading the markets of one exchange fails, discover still
\* returns a result: once the run has ended uncancelled, there is a result
\* in which the failing exchange has no pair and every other exchange of
\* the list that ccxt knows is counted.
C11_LoadFailureTolerated ==
    (d_pc = "done" /\ d_failed # {} /\ ~d_cancelled) =>
        /\ d_result # NoDiscResult
        /\ \A e \in GivenExchanges :
              (Supported(e) /\ e \notin d_failed) => e \in DOMAIN d_result[1].exchange_counts

\* C12: once the cancel signal is set, no further exchange is loaded or
\* taken from the cache (the load in progress may end), and a run whose
\* loop was cut short by the cancel never emits finished.
C12_CancelStopsEarly ==
    [][/\ (d_cancelled /\ d_pc # "load") => (d_pc' # "load" /\ d_counts' = d_counts)
       /\ (d_emitted' = "finished" /\ d_emitted # "finished") => d_idx' > Len(d_exchanges)]_vars

\* C12 witness: the cancel came while the first of several exchanges was
\* being handled; that exchange was counted, none after it, discover
\* returned the partial catalogue and the run ended without a signal.
C12_Witness ==
    /\ d_pc = "done"
    /\ d_cancelled
    /\ d_emitted = "none"
    /\ d_result # NoDiscResult
    /\ d_idx = 2
    /\ Len(d_exchanges) > 1
    /\ DOMAIN d_counts = {d_exchanges[1]}
    /\ d_counts[d_exchanges[1]] > 0

\* C13: every entry of the pair-to-exchange map discover returns is
\* supported by at least min_exchanges exchanges.
C13_MapMeetsMinimum ==
    d_result # NoDiscResult =>
        \A s \in DOMAIN d_result[1].pair_exchanges :
            Len(d_result[1].pair_exchanges[s]) >= d_min

\* the exchanges of the list whose catalogue holds the symbol as an active
\* spot market (no derivative, no settlement suffix) of an allowed quote
ListedOn(s) ==
    {e \in GivenExchanges :
        \E m \in d_catalogue[e] :
            /\ m.symbol = s
            /\ m.plain /\ m.spot /\ ~m.contract
            /\ m.active
            /\ \/ m.quote \in {"USDT", "usdt"}
               \/ m.quote = "" /\ m.symbol \in {"AAA/USDT", "BBB/USDT"}}

PositionIn(order, x) == CHOOSE i \in DOMAIN order : order[i] = x

IsSortedBy(order, seq) ==
    \A i, j \in DOMAIN seq : i < j => PositionIn(order, seq[i]) < PositionIn(order, seq[j])

\* what the claim demands of a result
EligibleAsListed(res) ==
    /\ {res.eligible_pairs[i] : i \in DOMAIN res.eligible_pairs}
          = {s \in DiscSymbols : Cardinality(ListedOn(s)) >= d_min}
    /\ IsSortedBy(SymbolOrder, res.eligible_pairs)
    /\ \A i \in DOMAIN res.eligible_pairs :
          LET s == res.eligible_pairs[i] IN
          /\ s \in DOMAIN res.pair_exchanges
          /\ IsSortedBy(LabelOrder, res.pair_exchanges[s])
          /\ {res.pair_exchanges[s][k] : k \in DOMAIN res.pair_exchanges[s]} = ListedOn(s)

OutboundCalls == Inside + (IF d_pc = "load" THEN 1 ELSE 0)

\* C20: every outbound gateway call of a scan cycle, a pair fallback fetch
\* or a discovery run is made while holding a slot of the global limiter:
\* the slots taken are as many as the calls in progress.
C20_CallsHoldSlot == OutboundCalls = MAX_HTTP_CONCURRENCY - slots

\* C30: at the head of an iteration for a supported exchange discover goes
\* to load_markets iff the cache holds no fresh catalogue of the exchange,
\* and a load_markets that returned leaves a fresh catalogue in the cache.
C30_LoadIffNotFresh ==
    [][/\ (d_pc = "check" /\ d_idx <= Len(d_exchanges) /\ ~d_cancelled
              /\ Supported(d_exchanges[d_idx]))
          => ((d_pc' = "load") <=> (d_cache'[d_exchanges[d_idx]] # "fresh"))
       /\ (d_pc = "load" /\ d_emitted' # "failed")
          => d_cache'[d_exchanges[d_idx]] = "fresh"]_vars

\* the filter as stated: one "/" and no ":" in the symbol, spot not false,
\* no contract, future, swap or margin market, active not false, and the
\* quote currency, whatever its case, in the allowed set
StatedPasses(m) ==
    /\ m.plain
    /\ m.spot
    /\ ~m.contract
    /\ ~m.margin
    /\ m.active
    /\ \/ m.quote \in {"USDT", "usdt"}
       \/ m.quote = "" /\ m.symbol \in {"AAA/USDT", "BBB/USDT"}

\* C31: a market passes the discovery filter iff it meets the stated
\* conditions: for every exchange whose catalogue was filtered, the symbol
\* of a market of the catalogue is put under that exchange exactly when the
\* market is a plain, active spot market of an allowed quote that is no
\* contract, future, swap or margin market.
C31_FilterAsStated ==
    \A e \in DOMAIN d_counts : \A m \in d_catalogue[e] :
        (e \in d_pairs[m.symbol]) <=> StatedPasses(m)

\* the same without the margin condition, which the code does not test
FilterAsStatedButMargin ==
    \A e \in DOMAIN d_counts : \A m \in d_catalogue[e] :
        (e \in d_pairs[m.symbol]) <=> (StatedPasses([m EXCEPT !.margin = FALSE]))

(***************************************************************************)
(* CcxtPriceProvider (ccxt_price_provider.py), for one exchange: the entry *)
(* points fetch_quotes and resolve_symbol / resolve_symbol_for_exchange    *)
(* called by one thread at a time, and the executor thread that loads the  *)
(* markets in the background.                                              *)
(***************************************************************************)
\* "stable": DEFAULT_PAIR or REVERSE_PAIR (line 255); "other": any other pair
PairKinds == {"stable", "other"}

IdleCall == [op |-> "idle", pc |-> "-", now |-> 0, pair |-> "-", cons |-> FALSE]
NoReturn == [op |-> "-", status |-> "-", now |-> 0, gateway |-> FALSE,
             attempt |-> FALSE, consulted |-> FALSE]

\* op: the entry point; status: the status of the quote or of the answer;
\* now: the `now` of the request; gateway: the request made a call to the
\* exchange or handed one to the executor; attempt: _resolve_symbol ran;
\* consulted: it looked the pair up in exchange.symbols
Returned(op, status, now, gateway, attempt, consulted) ==
    [op |-> op, status |-> status, now |-> now, gateway |-> gateway,
     attempt |-> attempt, consulted |-> consulted]

InitPrice(listings) ==
    /\ pp_clock = 0
    /\ markets_loaded = FALSE
    /\ market_future = "none"
    /\ market_retry_after = NoTime
    /\ error_cooldown_until = NoTime
    /\ no_symbol_until = NoTime
    /\ symbol_cache = FALSE
    /\ pp_listed \in listings
    /\ pp_call = IdleCall
    /\ pp_ret = NoReturn
    /\ pp_error_at = NoTime
    /\ pp_nosym_at = NoTime

\* `if until and now < until` (lines 235, 265, 278)
CooldownActive(until, now) == until # NoTime /\ now < until

\* _resolve_symbol, lines 255-274: the pair is looked up in exchange.symbols
ResolveConsults(pair, now) ==
    pair = "other" \/ (~symbol_cache /\ ~CooldownActive(no_symbol_until, now))

\* _resolve_symbol, lines 255-274: a symbol is returned
ResolveFinds(pair, now) ==
    IF pair = "other"
    THEN pp_listed["other"]
    ELSE symbol_cache \/ (~CooldownActive(no_symbol_until, now) /\ pp_listed["stable"])

\* _resolve_symbol, lines 270 and 273, at real time pp_clock
ResolveEffects(pair, now) ==
    /\ symbol_cache' = (symbol_cache \/ (pair = "stable" /\ ResolveFinds(pair, now)))
    /\ no_symbol_until' =
          IF pair = "stable" /\ ResolveConsults(pair, now) /\ ~ResolveFinds(pair, now)
          THEN now + NO_SYMBOL_COOLDOWN ELSE no_symbol_until
    /\ pp_nosym_at' =
          IF ResolveConsults(pair, now) /\ ~ResolveFinds(pair, now) THEN pp_clock ELSE pp_nosym_at

PriceClockTick ==
    /\ pp_clock < MaxPriceClock
    /\ pp_clock' = pp_clock + 1
    /\ pp_ret' = NoReturn
    /\ UNCHANGED <<markets_loaded, market_future, market_retry_after, error_cooldown_until,
                   no_symbol_until, symbol_cache, pp_listed, pp_call, pp_error_at, pp_nosym_at>>
    /\ UNCHANGED notPrice

\* resolve_symbol, lines 63-81 (resolve_symbol_for_exchange, lines 83-105,
\* alike) up to the call of load_markets on the calling thread, or to the
\* end when the markets are loaded
ResolveBegin(pair) ==
    /\ pp_call.op = "idle"
    /\ IF ~markets_loaded
       THEN /\ pp_call' = [op |-> "resolve", pc |-> "load", now |-> pp_clock,
                           pair |-> pair, cons |-> FALSE]
            /\ pp_ret' = NoReturn
            /\ UNCHANGED <<symbol_cache, no_symbol_until, pp_nosym_at>>
       ELSE /\ ResolveEffects(pair, pp_clock)
            /\ pp_ret' = Returned("resolve",
                                  IF ResolveFinds(pair, pp_clock) THEN "OK" ELSE "NO_SYMBOL",
                                  pp_clock, FALSE, TRUE, ResolveConsults(pair, pp_clock))
            /\ UNCHANGED pp_call
    /\ UNCHANGED <<pp_clock, markets_loaded, market_future, market_retry_after,
                   error_cooldown_until, pp_listed, pp_error_at>>
    /\ UNCHANGED notPrice

\* resolve_symbol, lines 70-81: load_markets returns (ok) or raises
\* ccxt.BaseError
ResolveLoadEnds(ok) ==
    /\ pp_call.op = "resolve" /\ pp_call.pc = "load"
    /\ IF ok
       THEN /\ markets_loaded' = TRUE
            /\ ResolveEffects(pp_call.pair, pp_call.now)
            /\ pp_ret' = Returned("resolve",
                                  IF ResolveFinds(pp_call.pair, pp_call.now)
                                  THEN "OK" ELSE "NO_SYMBOL",
                                  pp_call.now, TRUE, TRUE,
                                  ResolveConsults(pp_call.pair, pp_call.now))
            /\ UNCHANGED <<error_cooldown_until, pp_error_at>>
       ELSE /\ error_cooldown_until' = pp_call.now + ERROR_COOLDOWN
            /\ pp_error_at' = pp_clock
            /\ pp_ret' = Returned("resolve", "ERROR", pp_call.now, TRUE, FALSE, FALSE)
            /\ UNCHANGED <<markets_loaded, symbol_cache, no_symbol_until, pp_nosym_at>>
    /\ pp_call' = IdleCall
    /\ UNCHANGED <<pp_clock, market_future, market_retry_after, pp_listed>>
    /\ UNCHANGED notPrice

\* fetch_quotes, lines 107-176, for the exchange: _poll_market_futures
\* (lines 210-226), then _ensure_markets_async (lines 228-246), the
\* cooldown test and _resolve_symbol, up to the call of fetch_ticker
FetchBegin(pair) ==
    /\ pp_call.op = "idle"
    /\ LET polled == market_future \in {"ok", "failed"}
           future1 == IF polled THEN "none" ELSE market_future
           loaded1 == markets_loaded \/ market_future = "ok"
           retry1 == IF market_future = "failed" THEN pp_clock + ERROR_COOLDOWN
                     ELSE IF market_future = "ok" THEN NoTime ELSE market_retry_after
           cooldown1 == IF market_future = "failed" THEN pp_clock + ERROR_COOLDOWN
                        ELSE error_cooldown_until
           now == pp_clock
           warm == IF CooldownActive(retry1, now) THEN "ERROR"
                   ELSE IF future1 = "running" THEN "WARMING_UP" ELSE "LOADING"
       IN
       /\ markets_loaded' = loaded1
       /\ market_retry_after' = retry1
       /\ error_cooldown_until' = cooldown1
       /\ IF ~loaded1
          THEN /\ market_future' = IF warm = "LOADING" THEN "running" ELSE future1
               /\ pp_ret' = Returned("fetch", warm, now, warm = "LOADING", FALSE, FALSE)
               /\ UNCHANGED <<pp_call, symbol_cache, no_symbol_until, pp_nosym_at>>
          ELSE /\ market_future' = future1
               /\ IF CooldownActive(cooldown1, now)
                  THEN /\ pp_ret' = Returned("fetch", "COOLDOWN", now, FALSE, FALSE, FALSE)
                       /\ UNCHANGED <<pp_call, symbol_cache, no_symbol_until, pp_nosym_at>>
                  ELSE /\ ResolveEffects(pair, now)
                       /\ IF ResolveFinds(pair, now)
                          THEN /\ pp_call' = [op |-> "fetch", pc |-> "ticker", now |-> now,
                                              pair |-> pair, cons |-> ResolveConsults(pair, now)]
                               /\ pp_ret' = NoReturn
                          ELSE /\ pp_ret' = Returned("fetch", "NO_SYMBOL", now, FALSE, TRUE,
                                                     ResolveConsults(pair, now))
                               /\ UNCHANGED pp_call
    /\ UNCHANGED <<pp_clock, pp_listed, pp_error_at>>
    /\ UNCHANGED notPrice

\* fetch_quotes, lines 177-207: fetch_ticker returns (ok) or raises
\* ccxt.BaseError
FetchTickerEnds(ok) ==
    /\ pp_call.op = "fetch" /\ pp_call.pc = "ticker"
    /\ IF ok
       THEN /\ pp_ret' = Returned("fetch", "OK", pp_call.now, TRUE, TRUE, pp_call.cons)
            /\ UNCHANGED <<error_cooldown_until, pp_error_at>>
       ELSE /\ error_cooldown_until' = pp_call.now + ERROR_COOLDOWN
            /\ pp_error_at' = pp_clock
            /\ pp_ret' = Returned("fetch", "ERROR", pp_call.now, TRUE, TRUE, pp_call.cons)
    /\ pp_call' = IdleCall
    /\ UNCHANGED <<pp_clock, markets_loaded, market_future, market_retry_after,
                   no_symbol_until, symbol_cache, pp_listed, pp_nosym_at>>
    /\ UNCHANGED notPrice

\* the executor thread: exchange.load_markets, submitted at line 245,
\* returns (ok) or raises
BackgroundLoadEnds(ok) ==
    /\ market_future = "running"
    /\ market_future' = IF ok THEN "ok" ELSE "failed"
    /\ pp_error_at' = IF ok THEN pp_error_at ELSE pp_clock
    /\ pp_ret' = NoReturn
    /\ UNCHANGED <<pp_clock, markets_loaded, market_retry_after, error_cooldown_until,
                   no_symbol_until, symbol_cache, pp_listed, pp_call, pp_nosym_at>>
    /\ UNCHANGED notPrice

PriceStep ==
    \/ PriceClockTick
    \/ \E pair \in PairKinds : ResolveBegin(pair)
    \/ \E ok \in BOOLEAN : ResolveLoadEnds(ok)
    \/ \E pair \in PairKinds : FetchBegin(pair)
    \/ \E ok \in BOOLEAN : FetchTickerEnds(ok)
    \/ \E ok \in BOOLEAN : BackgroundLoadEnds(ok)

(***************************************************************************)
(* Claims about the price provider (checked under SpecPrice)               *)
(***************************************************************************)
\* C15: after a transport error for the exchange at time t, every request
\* to it through the price-resolution layer (quote fetch and symbol
\* resolution) made after t and before t + 12 s returns the synthesized
\* cooldown error and issues no call to the gateway.
C15_CooldownAfterError ==
    [][(/\ pp_ret' # NoReturn
        /\ pp_error_at # NoTime
        /\ pp_ret'.now > pp_error_at
        /\ pp_ret'.now < pp_error_at + ERROR_COOLDOWN)
            => (pp_ret'.status = "COOLDOWN" /\ ~pp_ret'.gateway)]_vars

\* C16: after a symbol resolution for the exchange has failed at time t,
\* every further resolution attempt for the exchange before t + 60 s, for
\* every pair, ends in NO_SYMBOL without consulting the catalogue again.
C16_NoSymbolCooldown ==
    [][(/\ pp_ret' # NoReturn
        /\ pp_ret'.attempt
        /\ pp_nosym_at # NoTime
        /\ pp_ret'.now >= pp_nosym_at
        /\ pp_ret'.now < pp_nosym_at + NO_SYMBOL_COOLDOWN)
            => (pp_ret'.status = "NO_SYMBOL" /\ ~pp_ret'.consulted)]_vars

\* C17: for an exchange whose catalogue was never loaded no entry point
\* loads the catalogue on the caller's thread, and the caller gets LOADING
\* or WARMING_UP at once (or the recorded error inside the retry window).
C17_NoLoadOnCallerThread ==
    /\ ~(pp_call.op # "idle" /\ pp_call.pc = "load")
    /\ (pp_ret # NoReturn /\ ~markets_loaded) =>
          pp_ret.status \in {"LOADING", "WARMING_UP", "ERROR"}

(***************************************************************************)
(* TickerScanService: rotation over the due symbols of one exchange        *)
(*                                                                         *)
(* One exchange without fetchTickers, asked for the same symbols in every  *)
(* cycle; the gateway answers every fetch_ticker.  A mark of               *)
(* _symbol_last_fetch is kept as its age at the `now` of the latest cycle, *)
(* in seconds, capped at the refresh interval: _is_symbol_due only asks    *)
(* whether the age has reached the interval.                               *)
(***************************************************************************)
\* TickerScanService._symbol_batch_size
symbol_batch_size == 60
\* the symbols requested from the exchange, as positions in sorted(symbols)
RotSymbols == 1..symbol_count
\* how many symbols the pairs of the scanner put on the exchange
SymbolCounts == {symbol_batch_size + 1, 2 * symbol_batch_size, MaxSymbols}
\* seconds between the `now` of one cycle and the `now` of the next; every
\* gap of the refresh interval or more leaves the same marks due
CycleGaps == 1..MinSymbolRefresh

InitRotate(counts) ==
    /\ symbol_count \in counts
    /\ symbol_age = [s \in RotSymbols |-> NoTime]
    /\ exchange_offsets = 0
    /\ rot_batch = <<>>

\* the python slice s[from:to]
Slice(s, from, to) == SubSeq(s, from + 1, IF to < Len(s) THEN to ELSE Len(s))

\* _is_symbol_due, on the age of the mark
IsDueAtAge(age) == age = NoTime \/ age >= MinSymbolRefresh

\* _select_symbol_batch: the batch and the offset it leaves behind
SelectSymbolBatch(symbols, offset) ==
    IF symbols = <<>> THEN [batch |-> <<>>, offset |-> offset]
    ELSE IF Len(symbols) <= symbol_batch_size THEN [batch |-> symbols, offset |-> offset]
    ELSE LET first == Slice(symbols, offset, offset + symbol_batch_size)
             wrapped == first = <<>>
             off == IF wrapped THEN 0 ELSE offset
             batch == IF wrapped THEN Slice(symbols, 0, symbol_batch_size) ELSE first
             next_offset == off + symbol_batch_size
         IN  [batch |-> batch,
              offset |-> IF next_offset >= Len(symbols) THEN 0 ELSE next_offset]

\* the age of a mark `gap` seconds later
Aged(age, gap) ==
    IF age = NoTime THEN NoTime
    ELSE IF age + gap >= MinSymbolRefresh THEN MinSymbolRefresh
    ELSE age + gap

\* one scan cycle of the exchange, `gap` seconds after the previous one:
\* the due symbols in sorted order, the batch, a fetch and a mark for each
\* symbol of the batch
RotateCycle(gap) ==
    \E due_symbols \in {SelectSeq([i \in 1..symbol_count |-> i],
                                  LAMBDA s : IsDueAtAge(Aged(symbol_age[s], gap)))} :
    \E sel \in {SelectSymbolBatch(due_symbols, exchange_offsets)} :
    \E fetched \in {{sel.batch[i] : i \in 1..Len(sel.batch)}} :
        /\ rot_batch' = sel.batch
        /\ exchange_offsets' = sel.offset
        /\ symbol_age' = [s \in RotSymbols |->
                             IF s \in fetched THEN 0 ELSE Aged(symbol_age[s], gap)]
        /\ UNCHANGED <<symbol_count, notRot>>

RotateStep == \E gap \in CycleGaps : RotateCycle(gap)

\* C21: every requested symbol is eventually fetched in some cycle, whatever
\* the gaps between the cycles are.
C21_NoStarvation == <>(\A s \in RotSymbols : symbol_age[s] # NoTime)

(***************************************************************************)
(* TickerScanService.scan: one cycle over two pairs and three exchanges    *)
(*                                                                         *)
(* Prices are integers (tenths of the quote currency).  A mid is kept      *)
(* doubled (bid + ask) and a median of mids fourfold, so that no division  *)
(* is rounded; the percentages are compared after multiplying out.  Every  *)
(* symbol is due (the marks of _symbol_last_fetch are modelled above); the *)
(* volume of the update is left out.                                       *)
(***************************************************************************)
\* TickerScanService._default_outlier_pct
default_outlier_pct == 5
\* max_intrabook_spread_pct is None
NoLimit == -1
\* the values of max_intrabook_spread_pct, in percent
LimitChoices == {NoLimit, 1}

\* sorted(pair_exchanges.keys())
PairOrder == <<"P1", "P2">>
\* the pairs argument (<<>>: None, else the list, wrapped) and max_pairs
PairsChoices == {<<>>, <<<<"P2", "P1">>>>}
MaxPairsChoices == {1, 2}
\* the pair_exchanges argument
pair_exchanges(pair) == IF pair = "P1" THEN <<"A", "B", "C">> ELSE <<"A", "B">>
ScanKeys == {<<"P1", "A">>, <<"P1", "B">>, <<"P1", "C">>, <<"P2", "A">>, <<"P2", "B">>}
\* the (symbol, exchange) keys _is_symbol_due holds true for at `now`: all
\* of them in the first cycle, fewer when an earlier cycle has fetched some
\* less than 4 s ago
DueChoices == {ScanKeys, {k \in ScanKeys : k[1] # "P2"}, ScanKeys \ {<<"P1", "C">>}}

SelectPairsUncapped(pairs_arg, cap) ==
    IF pairs_arg = <<>> THEN PairOrder ELSE pairs_arg[1]
\* lines 90-93: sorted(pair_exchanges.keys())[:max_pairs] or
\* list(pairs)[:max_pairs]
SelectPairs(pairs_arg, cap) ==
    Slice(IF pairs_arg = <<>> THEN PairOrder ELSE pairs_arg[1], 0, cap)
pairs_to_scan == SelectPairs(scan_pairs, max_pairs)
\* the number of keys of the catalogue
catalogue_count == Len(PairOrder)
\* TickerScanResult.pair_count, line 217
pair_count == Len(pairs_to_scan)

\* lines 105-107: the keys of exchange_symbols in insertion order, after the
\* first n pairs
RECURSIVE ExchangeSymbolsKeys(_)
ExchangeSymbolsKeys(n) ==
    IF n = 0 THEN <<>>
    ELSE LET before == ExchangeSymbolsKeys(n - 1)
             held == {before[i] : i \in 1..Len(before)}
         IN  before \o SelectSeq(pair_exchanges(pairs_to_scan[n]), LAMBDA e : e \notin held)
ScanExchanges == ExchangeSymbolsKeys(Len(pairs_to_scan))
\* exchange.has.get("fetchTickers")
HasFetchTickers(e) == e = "B"
\* sorted(symbols) of line 124
SymbolList(e) ==
    SelectSeq(PairOrder, LAMBDA p :
        /\ \E i \in 1..Len(pairs_to_scan) : pairs_to_scan[i] = p
        /\ \E i \in 1..Len(pair_exchanges(p)) : pair_exchanges(p)[i] = e)
\* lines 125-129: due_symbols
DueSymbols(e) == SelectSeq(SymbolList(e), LAMBDA p : <<p, e>> \in cy_due)

Ticker(bid, ask) == [bid |-> bid, ask |-> ask]
\* what the gateway may return for a symbol: books around 100, 100.2, 105,
\* 110 and 140, a book more than one percent wide, and one without a bid
TickerChoices(pair) ==
    IF pair = "P1"
    THEN {Ticker(999, 1001), Ticker(1001, 1003), Ticker(1049, 1051), Ticker(1099, 1101),
          Ticker(1399, 1401), Ticker(1030, 1050), Ticker(0, 1001)}
    ELSE {Ticker(999, 1001), Ticker(0, 1001)}
\* the maps fetch_tickers may return: a ticker, or none, for each symbol asked
TickerMaps(symbols) ==
    LET asked == {symbols[i] : i \in 1..Len(symbols)}
    IN  {m \in [asked -> UNION {{<<>>} \cup {<<t>> : t \in TickerChoices(p)} : p \in asked}] :
            \A p \in asked : m[p] = <<>> \/ m[p][1] \in TickerChoices(p)}

InitCycle(limits, lists, caps, dues) ==
    /\ cy_limit \in limits
    /\ scan_pairs \in lists
    /\ max_pairs \in caps
    /\ cy_due \in dues
    /\ cy_pc = "fetch"
    /\ cy_ex = 1
    /\ cy_sym = 1
    /\ cy_pair = 1
    /\ ticker_map = [k \in ScanKeys |-> <<>>]
    /\ ok_count = 0
    /\ fail_count = 0
    /\ skipped_count = 0
    /\ scan_errors = <<>>
    /\ scan_updates = <<>>
    /\ cy_calls = <<>>
    /\ cy_valid = [i \in 1..Len(pairs_to_scan) |-> <<>>]

\* the position of the loops of lines 109 and 153 after a call that raised
\* stops at its first failure
NextFetchStopsAtFailure(ex, sym, batch_len, ok) ==
    IF ~ok THEN <<Len(ScanExchanges) + 1, 1>>
    ELSE IF sym < batch_len THEN <<ex, sym + 1>> ELSE <<ex + 1, 1>>
\* the position of the loops of lines 109 and 153 after a call: `continue`
\* after a failure, the next symbol or exchange after a success
NextFetch(ex, sym, batch_len, ok) ==
    IF sym < batch_len THEN <<ex, sym + 1>> ELSE <<ex + 1, 1>>

\* the loops move on, to the pairs when the exchanges are exhausted
FetchMovesOn(pos) ==
    /\ cy_ex' = pos[1]
    /\ cy_sym' = pos[2]
    /\ cy_pc' = IF pos[1] > Len(ScanExchanges) THEN "pairs" ELSE "fetch"

\* lines 151-166: fetch_ticker of the next symbol of the batch
ScanFetchOne(ok, t) ==
    /\ cy_pc = "fetch"
    /\ ~HasFetchTickers(ScanExchanges[cy_ex])
    /\ DueSymbols(ScanExchanges[cy_ex]) # <<>>
    /\ LET e == ScanExchanges[cy_ex]
           batch == SelectSymbolBatch(DueSymbols(e), 0).batch
           symbol == batch[cy_sym]
       IN  /\ t \in TickerChoices(symbol)
           /\ cy_calls' = Append(cy_calls, [exchange |-> e, symbols |-> {symbol}, ok |-> ok])
           /\ IF ok
              THEN /\ ok_count' = ok_count + 1
                   /\ ticker_map' = [ticker_map EXCEPT ![<<symbol, e>>] = <<t>>]
                   /\ UNCHANGED <<fail_count, scan_errors>>
              ELSE /\ fail_count' = fail_count + 1
                   /\ scan_errors' = Append(scan_errors, <<e, symbol>>)
                   /\ UNCHANGED <<ok_count, ticker_map>>
           /\ FetchMovesOn(NextFetch(cy_ex, cy_sym, Len(batch), ok))
    /\ UNCHANGED <<cy_limit, scan_pairs, max_pairs, cy_due, cy_pair, skipped_count,
                   scan_updates, cy_valid, notCycle>>

\* lines 131-132 and 152-153: no symbol of the exchange is due, or the
\* batch is empty: `continue` without a call
ScanNothingDue ==
    /\ cy_pc = "fetch"
    /\ DueSymbols(ScanExchanges[cy_ex]) = <<>>
    /\ FetchMovesOn(<<cy_ex + 1, 1>>)
    /\ UNCHANGED <<cy_limit, scan_pairs, max_pairs, cy_due, cy_pair, ticker_map, ok_count,
                   fail_count, skipped_count, scan_errors, scan_updates, cy_calls, cy_valid,
                   notCycle>>

\* lines 130-149: fetch_tickers of the due symbols
ScanFetchBatch(ok, fetched_map) ==
    /\ cy_pc = "fetch"
    /\ HasFetchTickers(ScanExchanges[cy_ex])
    /\ DueSymbols(ScanExchanges[cy_ex]) # <<>>
    /\ LET e == ScanExchanges[cy_ex]
           due_symbols == DueSymbols(e)
           asked == {due_symbols[i] : i \in 1..Len(due_symbols)}
       IN  /\ fetched_map \in TickerMaps(due_symbols)
           /\ cy_calls' = Append(cy_calls, [exchange |-> e, symbols |-> asked, ok |-> ok])
           /\ IF ok
              THEN /\ ok_count' = ok_count + Cardinality({s \in asked : fetched_map[s] # <<>>})
                   /\ ticker_map' = [k \in ScanKeys |->
                                        IF k[2] = e /\ k[1] \in asked /\ fetched_map[k[1]] # <<>>
                                        THEN fetched_map[k[1]] ELSE ticker_map[k]]
                   /\ UNCHANGED <<fail_count, scan_errors>>
              ELSE /\ fail_count' = fail_count + 1
                   /\ scan_errors' = Append(scan_errors, <<e, "batch">>)
                   /\ UNCHANGED <<ok_count, ticker_map>>
           /\ FetchMovesOn(NextFetch(cy_ex, 1, 1, ok))
    /\ UNCHANGED <<cy_limit, scan_pairs, max_pairs, cy_due, cy_pair, skipped_count,
                   scan_updates, cy_valid, notCycle>>

\* lines 171-185: the entry of an exchange, bid 0 standing for no ticker,
\* no bid or a bid that is not positive
Candidate(pair, e) ==
    IF ticker_map[<<pair, e>>] = <<>> THEN [exchange |-> e, bid |-> 0, ask |-> 0]
    ELSE [exchange |-> e, bid |-> ticker_map[<<pair, e>>][1].bid,
          ask |-> ticker_map[<<pair, e>>][1].ask]
\* lines 179-182: intrabook = (ask - bid) / mid * 100 > max_intrabook_spread_pct
TooWide(entry, limit) ==
    limit # NoLimit /\ (entry.ask - entry.bid) * 200 > limit * (entry.bid + entry.ask)
\* lines 169-184: entries, in the order of pair_exchanges
Entries(pair, limit) ==
    SelectSeq([i \in 1..Len(pair_exchanges(pair)) |-> Candidate(pair, pair_exchanges(pair)[i])],
              LAMBDA c : c.bid > 0 /\ c.ask > 0 /\ ~TooWide(c, limit))

RECURSIVE InsertSorted(_, _)
InsertSorted(s, x) ==
    IF s = <<>> THEN <<x>>
    ELSE IF x <= Head(s) THEN <<x>> \o s
    ELSE <<Head(s)>> \o InsertSorted(Tail(s), x)
RECURSIVE SortedInts(_)
SortedInts(s) == IF s = <<>> THEN <<>> ELSE InsertSorted(SortedInts(Tail(s)), Head(s))
\* statistics.median of the mids, fourfold: the middle one, or the mean of
\* the middle two
Median4(mids2) ==
    LET sorted == SortedInts(mids2)
        n == Len(sorted)
    IN  IF n % 2 = 1 THEN 2 * sorted[(n + 1) \div 2]
        ELSE sorted[n \div 2] + sorted[n \div 2 + 1]
AbsDiff(a, b) == IF a >= b THEN a - b ELSE b - a
\* line 195: abs(mid - median_mid) / median_mid * 100 > outlier_pct
IsOutlier(entry, median4, pct) ==
    AbsDiff(2 * (entry.bid + entry.ask), median4) * 100 > pct * median4
\* lines 190-197: valid_entries
ValidEntries(entries, pct) ==
    LET median4 == Median4([i \in 1..Len(entries) |-> entries[i].bid + entries[i].ask])
    IN  SelectSeq(entries, LAMBDA c : ~IsOutlier(c, median4, pct))

\* lines 186 and 199 with a threshold of one entry
TooFewBelowOne(entries) == Len(entries) < 1
\* lines 186 and 199: len(entries) < 2
TooFew(entries) == Len(entries) < 2

\* the last position of the largest of the keys
LastMax(keys) ==
    CHOOSE i \in 1..Len(keys) :
        /\ \A j \in 1..Len(keys) : keys[j] <= keys[i]
        /\ \A j \in (i + 1)..Len(keys) : keys[j] < keys[i]
\* max(items, key=...) on the keys of the items: the first position of the
\* largest key
FirstMax(keys) ==
    CHOOSE i \in 1..Len(keys) :
        /\ \A j \in 1..Len(keys) : keys[j] <= keys[i]
        /\ \A j \in 1..(i - 1) : keys[j] < keys[i]
\* min(items, key=...): the first position of the smallest key
FirstMin(keys) == FirstMax([i \in 1..Len(keys) |-> 0 - keys[i]])
\* a spread_pct over the buy ask
SpreadPctOverAsk(sell_bid, buy_ask) ==
    IF buy_ask > 0 THEN <<[num |-> (sell_bid - buy_ask) * 100, den |-> buy_ask]>> ELSE <<>>
\* lines 347-351: spread_pct = spread_abs / mid * 100 if mid > 0, as a
\* fraction; None otherwise
SpreadPct(sell_bid, buy_ask) ==
    IF sell_bid + buy_ask > 0
    THEN <<[num |-> (sell_bid - buy_ask) * 200, den |-> sell_bid + buy_ask]>>
    ELSE <<>>
\* _build_update
BuildUpdate(pair, valid_entries) ==
    LET buy == valid_entries[FirstMin([i \in 1..Len(valid_entries) |-> valid_entries[i].ask])]
        sell == valid_entries[FirstMax([i \in 1..Len(valid_entries) |-> valid_entries[i].bid])]
    IN  [pair |-> pair,
         best_buy_exchange |-> buy.exchange, buy_ask |-> buy.ask,
         best_sell_exchange |-> sell.exchange, sell_bid |-> sell.bid,
         spread_abs |-> sell.bid - buy.ask,
         spread_pct |-> SpreadPct(sell.bid, buy.ask)]

\* lines 168-213: the next pair of pairs_to_scan
ScanPair ==
    /\ cy_pc = "pairs"
    /\ LET pair == pairs_to_scan[cy_pair]
           entries == Entries(pair, cy_limit)
           valid_entries == IF TooFew(entries) THEN <<>>
                            ELSE ValidEntries(entries, default_outlier_pct)
       IN  /\ cy_valid' = [cy_valid EXCEPT ![cy_pair] = valid_entries]
           /\ IF TooFew(entries) \/ TooFew(valid_entries)
              THEN /\ skipped_count' = skipped_count + 1
                   /\ UNCHANGED scan_updates
              ELSE /\ scan_updates' = Append(scan_updates, BuildUpdate(pair, valid_entries))
                   /\ UNCHANGED skipped_count
    /\ cy_pair' = cy_pair + 1
    /\ cy_pc' = IF cy_pair = Len(pairs_to_scan) THEN "done" ELSE "pairs"
    /\ UNCHANGED <<cy_limit, scan_pairs, max_pairs, cy_due, cy_ex, cy_sym, ticker_map, ok_count, fail_count, scan_errors,
                   cy_calls, notCycle>>

CycleStep ==
    \/ \E ok \in BOOLEAN, t \in TickerChoices("P1") : ScanFetchOne(ok, t)
    \/ \E ok \in BOOLEAN, fetched_map \in TickerMaps(DueSymbols("B")) : ScanFetchBatch(ok, fetched_map)
    \/ ScanNothingDue
    \/ ScanPair

\* ---- claims about one scan cycle ----
\* the outbound calls the cycle owes: one per symbol of an exchange without
\* fetchTickers, one for all symbols of an exchange with it
RequestedOn(e) ==
    {p \in {"P1", "P2"} :
        /\ \E i \in 1..Len(pairs_to_scan) : pairs_to_scan[i] = p
        /\ <<p, e>> \in ScanKeys \cap cy_due}
RequestedCalls ==
    UNION {IF HasFetchTickers(e)
           THEN {<<e, RequestedOn(e)>>} \ {<<e, {}>>}
           ELSE {<<e, {p}>> : p \in RequestedOn(e)}
           : e \in {"A", "B", "C"}}
FailedCalls == {i \in 1..Len(cy_calls) : ~cy_calls[i].ok}
\* the entry of errors a failed call leaves
ErrorOf(call) ==
    <<call.exchange, IF HasFetchTickers(call.exchange) THEN "batch"
                     ELSE CHOOSE s \in call.symbols : TRUE>>

\* C22: every failed fetch (of one symbol, or of one exchange batch) has left
\* exactly one entry in errors and one increment of fail_count, and once the
\* fetch loops are over every call of the cycle has been attempted: the scan
\* goes on to the pairs and to its result.
C22_FailureRecorded ==
    /\ fail_count = Cardinality(FailedCalls)
    /\ Len(scan_errors) = Cardinality(FailedCalls)
    /\ \A i \in FailedCalls :
          Cardinality({j \in 1..Len(scan_errors) : scan_errors[j] = ErrorOf(cy_calls[i])}) = 1
    /\ cy_pc \in {"pairs", "done"} =>
          {<<cy_calls[i].exchange, cy_calls[i].symbols>> : i \in 1..Len(cy_calls)}
              = RequestedCalls
\* a finished cycle in which a call failed and a later call was still made
C22_Witness ==
    /\ cy_pc = "done"
    /\ \E i \in FailedCalls : \E j \in (i + 1)..Len(cy_calls) : cy_calls[j].ok

\* the exchanges of the pair whose ticker of this cycle has bid > 0 and ask > 0
ValidExchanges(pair) ==
    {e \in {"A", "B", "C"} :
        /\ <<pair, e>> \in ScanKeys
        /\ ticker_map[<<pair, e>>] # <<>>
        /\ ticker_map[<<pair, e>>][1].bid > 0
        /\ ticker_map[<<pair, e>>][1].ask > 0}

\* C23: the step that handles a pair with exactly one valid exchange entry
\* adds one to skipped_count, adds no update, and leaves fail_count and
\* errors as they were.
C23_OneEntrySkipped ==
    [][(cy_pc = "pairs" /\ Cardinality(ValidExchanges(pairs_to_scan[cy_pair])) = 1)
          => /\ skipped_count' = skipped_count + 1
             /\ scan_updates' = scan_updates
             /\ fail_count' = fail_count
             /\ scan_errors' = scan_errors]_vars
\* a finished cycle in which the first pair had exactly one valid entry
C23_Witness ==
    /\ cy_pc = "done"
    /\ Cardinality(ValidExchanges("P1")) = 1
    /\ skipped_count >= 1

\* the doubled mids of the valid entries of a pair
ValidMids2(pair) ==
    LET order == pair_exchanges(pair)
        valid == SelectSeq(order, LAMBDA e : e \in ValidExchanges(pair))
    IN  [i \in 1..Len(valid) |-> ticker_map[<<pair, valid[i]>>][1].bid
                                   + ticker_map[<<pair, valid[i]>>][1].ask]
\* the median of a list of two or three numbers, doubled
MedianOfFew(s) ==
    IF Len(s) = 2 THEN s[1] + s[2]
    ELSE 2 * (CHOOSE m \in {s[1], s[2], s[3]} :
                 /\ Cardinality({i \in 1..3 : s[i] <= m}) >= 2
                 /\ Cardinality({i \in 1..3 : s[i] >= m}) >= 2)
\* the exchanges whose entry survives by the stated rule: valid, within
\* outlierPct percent of the median of the mids of all valid entries, and
\* with a book no wider than the limit
StatedSurvivors(pair) ==
    LET med4 == MedianOfFew(ValidMids2(pair))
    IN  {e \in ValidExchanges(pair) :
            LET t == ticker_map[<<pair, e>>][1]
            IN  /\ AbsDiff(2 * (t.bid + t.ask), med4) * 100 <= default_outlier_pct * med4
                /\ (cy_limit = NoLimit \/ (t.ask - t.bid) * 200 <= cy_limit * (t.bid + t.ask))}
HasUpdate(pair) == \E i \in 1..Len(scan_updates) : scan_updates[i].pair = pair

\* C24: for a handled pair with at least 2 valid entries, the entries that
\* feed the update are those within outlierPct percent of the median of the
\* mids of all valid entries, and the pair is skipped iff fewer than 2
\* survive.
C24_OutlierRejection ==
    \A i \in 1..Len(pairs_to_scan) :
        (i < cy_pair /\ Cardinality(ValidExchanges(pairs_to_scan[i])) >= 2) =>
            /\ HasUpdate(pairs_to_scan[i]) <=> Cardinality(StatedSurvivors(pairs_to_scan[i])) >= 2
            /\ HasUpdate(pairs_to_scan[i]) =>
                  {cy_valid[i][j].exchange : j \in 1..Len(cy_valid[i])}
                      = StatedSurvivors(pairs_to_scan[i])

\* the index in pairs_to_scan of the pair of an update
PairIndex(u) == CHOOSE i \in 1..Len(pairs_to_scan) : pairs_to_scan[i] = u.pair
\* C25: every update carries the minimum surviving ask and the maximum
\* surviving bid, each with the first exchange of the pair's exchange order
\* that quotes it, spread_abs = sell_bid - buy_ask, and spread_pct =
\* spread_abs / ((sell_bid + buy_ask) / 2) * 100 when that mid is positive.
C25_BestBuySell ==
    \A k \in 1..Len(scan_updates) :
        LET u == scan_updates[k]
            s == cy_valid[PairIndex(u)]
            idx == 1..Len(s)
        IN  /\ \E i \in idx :
                  /\ u.buy_ask = s[i].ask /\ u.best_buy_exchange = s[i].exchange
                  /\ \A j \in idx : s[j].ask >= s[i].ask
                  /\ \A j \in idx : j < i => s[j].ask > s[i].ask
            /\ \E i \in idx :
                  /\ u.sell_bid = s[i].bid /\ u.best_sell_exchange = s[i].exchange
                  /\ \A j \in idx : s[j].bid <= s[i].bid
                  /\ \A j \in idx : j < i => s[j].bid < s[i].bid
            /\ u.spread_abs = u.sell_bid - u.buy_ask
            /\ IF u.sell_bid + u.buy_ask > 0
               THEN /\ u.spread_pct # <<>>
                    /\ u.spread_pct[1].num * (u.sell_bid + u.buy_ask)
                          = u.spread_abs * 200 * u.spread_pct[1].den
               ELSE u.spread_pct = <<>>
\* a finished cycle with an update whose best ask and best bid are each
\* quoted by two surviving exchanges
C25_Witness ==
    /\ cy_pc = "done"
    /\ \E k \in 1..Len(scan_updates) :
          LET u == scan_updates[k]
              s == cy_valid[PairIndex(u)]
          IN  /\ Cardinality({j \in 1..Len(s) : s[j].ask = u.buy_ask}) >= 2
              /\ Cardinality({j \in 1..Len(s) : s[j].bid = u.sell_bid}) >= 2

\* the list the pairs are taken from, as stated: the explicit candidate list
\* when one is given, else the sorted catalogue keys
StatedList == IF scan_pairs = <<>> THEN <<"P1", "P2">> ELSE scan_pairs[1]
StatedCount == IF max_pairs < Len(StatedList) THEN max_pairs ELSE Len(StatedList)
StatedSelection == {StatedList[i] : i \in 1..StatedCount}

\* C33: scan handles exactly the first min(max_pairs, n) pairs of the
\* explicit list when one is given, else of the sorted catalogue keys: no
\* call asks for a pair beyond the cap, no ticker and no update belongs to
\* one, and when the cycle is over every due symbol of a selected pair has
\* been asked for, every selected pair has ended in an update or in
\* skipped_count, and pair_count is the number of pairs selected.
C33_FirstPairsOnly ==
    /\ \A i \in 1..Len(cy_calls) : cy_calls[i].symbols \subseteq StatedSelection
    /\ \A k \in ScanKeys : ticker_map[k] # <<>> => k[1] \in StatedSelection
    /\ \A i \in 1..Len(scan_updates) : scan_updates[i].pair \in StatedSelection
    /\ cy_pc = "done" =>
          /\ pair_count = StatedCount
          /\ Len(scan_updates) + skipped_count = StatedCount
          /\ \A k \in ScanKeys \cap cy_due :
                k[1] \in StatedSelection =>
                    \E i \in 1..Len(cy_calls) :
                        cy_calls[i].exchange = k[2] /\ k[1] \in cy_calls[i].symbols
\* a finished cycle over the explicit list P2, P1 capped at one pair: P2
\* was fetched and has its update, P1 was left alone
C33_Witness ==
    /\ cy_pc = "done"
    /\ scan_pairs = <<<<"P2", "P1">>>>
    /\ max_pairs = 1
    /\ Len(scan_updates) = 1
    /\ scan_updates[1].pair = "P2"
    /\ Len(cy_calls) >= 2

\* C35: the intrabook filter comes after outlier rejection: every entry
\* that feeds an update lies within outlier_pct percent of the median of
\* the mids of all valid entries of its pair, those with a book wider than
\* max_intrabook_spread_pct included.
C35_WideEntriesInMedian ==
    \A i \in 1..Len(pairs_to_scan) :
        (i < cy_pair /\ HasUpdate(pairs_to_scan[i])) =>
            \A j \in 1..Len(cy_valid[i]) :
                LET med4 == MedianOfFew(ValidMids2(pairs_to_scan[i]))
                IN  AbsDiff(2 * (cy_valid[i][j].bid + cy_valid[i][j].ask), med4) * 100
                        <= default_outlier_pct * med4

\* the pairs none of whose tickers was fetched in the cycle
Unfetched == {p \in StatedSelection : \A k \in ScanKeys : k[1] = p => ticker_map[k] = <<>>}

\* C39: in the result of a scan, updates plus skipped_count make up
\* pair_count, no pair has two updates, and a selected pair none of whose
\* symbols was due or fetched has no update: it is among the skipped.
C39_UpdatesPlusSkipped ==
    /\ \A i, j \in 1..Len(scan_updates) :
          scan_updates[i].pair = scan_updates[j].pair => i = j
    /\ cy_pc = "done" =>
          /\ Len(scan_updates) + skipped_count = pair_count
          /\ \A p \in Unfetched : ~HasUpdate(p)
          /\ skipped_count >= Cardinality(Unfetched)
\* a finished cycle over both pairs in which no symbol of P2 was due: P1
\* has its update and P2 is the one pair skipped, without any failed call
C39_Witness ==
    /\ cy_pc = "done"
    /\ pair_count = 2
    /\ cy_due = {k \in ScanKeys : k[1] # "P2"}
    /\ fail_count = 0
    /\ Len(scan_updates) = 1
    /\ skipped_count = 1
    /\ Unfetched = {"P2"}

(***************************************************************************)
(* arbitrage_analyzer.analyze                                              *)
(*                                                                         *)
(* Prices are integers (tenths of the quote currency); a percentage is a   *)
(* fraction num / den with den > 0, and min_spread_pct is given in         *)
(* thousandths of a percent.  The last price and the timestamp of a quote  *)
(* are left out.                                                           *)
(***************************************************************************)
Quote(exchange, bid, ask, status, source) ==
    [exchange |-> exchange, bid |-> bid, ask |-> ask, status |-> status, source |-> source]
\* what the table of the main window may hold for one exchange: quotes from
\* HTTP and from a stream, a generated quote marked "Error" with its prices,
\* a failed quote and a quote without a bid
QuoteKinds(e) ==
    {Quote(e, 1000, 1001, "OK", "HTTP"), Quote(e, 1005, 1006, "OK", "HTTP"),
     Quote(e, 1010, 1011, "OK", "HTTP"), Quote(e, 1000, 1001, "OK", "WS"),
     Quote(e, 1005, 1006, "OK", "WS"), Quote(e, 990, 991, "Error", "HTTP"),
     Quote(e, 0, 0, "ERROR", "HTTP"), Quote(e, 0, 1001, "OK", "HTTP")}
\* _quotes_by_exchange.values(): at most one quote per exchange
QuoteLists ==
    {qa \o qb \o qc : qa \in {<<>>} \cup {<<q>> : q \in QuoteKinds("A")},
                      qb \in {<<>>} \cup {<<q>> : q \in QuoteKinds("B")},
                      qc \in {<<>>} \cup {<<q>> : q \in QuoteKinds("C")}}
\* min_spread_pct, in thousandths of a percent
MinSpreadChoices == {0, 398}
TopNChoices == {1, 2, 10}
\* the quotes of the scenario: A{bid 100, ask 100.1}, B{bid 100.5, ask 100.6}
ScenarioQuotes == <<Quote("A", 1000, 1001, "OK", "HTTP"), Quote("B", 1005, 1006, "OK", "HTTP")>>

NoAnalysis == <<>>
InitAnalyze(lists, mins, flags, tops) ==
    /\ an_quotes \in lists
    /\ an_min_spread \in mins
    /\ an_only_ws \in flags
    /\ an_top_n \in tops
    /\ an_result = NoAnalysis

\* str.upper() on the statuses and sources the program produces
Upper(s) ==
    CASE s = "Error" -> "ERROR"
      [] s = "Warning" -> "WARNING"
      [] OTHER -> s

\* _filter_valid that keeps every status
FilterValidAnyStatus(quotes, only_ws) ==
    SelectSeq([i \in 1..Len(quotes) |-> [quotes[i] EXCEPT !.status = Upper(@),
                                                          !.source = Upper(@)]],
              LAMBDA q : /\ q.bid > 0 /\ q.ask > 0
                         /\ (only_ws => q.source = "WS"))
\* _filter_valid: the snapshots of the quotes that pass
FilterValid(quotes, only_ws) ==
    SelectSeq([i \in 1..Len(quotes) |-> [quotes[i] EXCEPT !.status = Upper(@),
                                                          !.source = Upper(@)]],
              LAMBDA q : /\ q.status = "OK"
                         /\ q.bid > 0 /\ q.ask > 0
                         /\ (only_ws => q.source = "WS"))

Pct(num, den) == [num |-> num, den |-> den]
\* a spread over the mean of the two prices
PctOverMid(sell_bid, buy_ask) == Pct((sell_bid - buy_ask) * 200, sell_bid + buy_ask)
\* lines 59 and 102: (spread_abs / ask * 100.0) if ask else 0.0
PctOverAsk(sell_bid, buy_ask) ==
    IF buy_ask # 0 THEN Pct((sell_bid - buy_ask) * 100, buy_ask) ELSE Pct(0, 1)
\* line 103: spread_pct < min_spread_pct
BelowMin(pct, min_spread) == pct.num * 1000 < min_spread * pct.den

\* the order of line 115 turned round
RanksAfter(a, b) == a.spread_pct.num * b.spread_pct.den < b.spread_pct.num * a.spread_pct.den
\* a goes before b under sort(key=spread_pct, reverse=True) whatever their
\* places in the list
RanksBefore(a, b) == a.spread_pct.num * b.spread_pct.den > b.spread_pct.num * a.spread_pct.den
\* x put into a sorted list behind everything that does not rank after it:
\* the sort is stable
RECURSIVE InsertRanked(_, _)
InsertRanked(s, x) ==
    IF s = <<>> THEN <<x>>
    ELSE IF RanksBefore(x, Head(s)) THEN <<x>> \o s
    ELSE <<Head(s)>> \o InsertRanked(Tail(s), x)
RECURSIVE SortRanked(_)
SortRanked(s) ==
    IF s = <<>> THEN <<>>
    ELSE InsertRanked(SortRanked(SubSeq(s, 1, Len(s) - 1)), s[Len(s)])

\* _build_opportunities
BuildOpportunities(quotes, min_spread, top_n) ==
    LET n == Len(quotes)
        buy(k) == quotes[((k - 1) \div n) + 1]
        sell(k) == quotes[((k - 1) % n) + 1]
        all == [k \in 1..(n * n) |->
                   [buy_exchange |-> buy(k).exchange, buy_ask |-> buy(k).ask,
                    sell_exchange |-> sell(k).exchange, sell_bid |-> sell(k).bid,
                    spread_abs |-> sell(k).bid - buy(k).ask,
                    spread_pct |-> PctOverAsk(sell(k).bid, buy(k).ask)]]
        kept == SelectSeq(all, LAMBDA o : /\ o.buy_exchange # o.sell_exchange
                                          /\ ~BelowMin(o.spread_pct, min_spread))
    IN  Slice(SortRanked(kept), 0, top_n)

\* analyze
Analyze(quotes, min_spread, only_ws, top_n) ==
    LET valid_quotes == FilterValid(quotes, only_ws)
        best_buy == valid_quotes[FirstMin([i \in 1..Len(valid_quotes) |-> valid_quotes[i].ask])]
        best_sell == valid_quotes[FirstMax([i \in 1..Len(valid_quotes) |-> valid_quotes[i].bid])]
    IN  IF valid_quotes = <<>>
        THEN [best_buy |-> <<>>, best_sell |-> <<>>, spread_abs |-> 0,
              spread_pct |-> Pct(0, 1), opportunities |-> <<>>]
        ELSE [best_buy |-> <<best_buy>>, best_sell |-> <<best_sell>>,
              spread_abs |-> best_sell.bid - best_buy.ask,
              spread_pct |-> PctOverAsk(best_sell.bid, best_buy.ask),
              opportunities |-> BuildOpportunities(valid_quotes, min_spread, top_n)]

\* MainWindow._update_arbitrage: one call of analyze
AnalyzeCall ==
    /\ an_result = NoAnalysis
    /\ an_result' = <<Analyze(an_quotes, an_min_spread, an_only_ws, an_top_n)>>
    /\ UNCHANGED <<an_quotes, an_min_spread, an_only_ws, an_top_n, notAnalyze>>

\* ---- claims about analyze ----
\* the quotes the contract calls valid
StatedValid ==
    {i \in 1..Len(an_quotes) :
        /\ an_quotes[i].status = "OK"
        /\ an_quotes[i].bid > 0 /\ an_quotes[i].ask > 0
        /\ (an_only_ws => an_quotes[i].source = "WS")}
Analyzed == an_result # NoAnalysis

\* C26: when at least one quote is valid, best_buy and best_sell are valid
\* quotes, no valid quote asks less than best_buy or bids more than
\* best_sell, and spread_abs is best_sell.bid - best_buy.ask.
C26_BestOfValid ==
    (Analyzed /\ StatedValid # {}) =>
        LET r == an_result[1]
        IN  /\ r.best_buy # <<>> /\ r.best_sell # <<>>
            /\ \E i \in StatedValid : /\ an_quotes[i].exchange = r.best_buy[1].exchange
                                      /\ an_quotes[i].ask = r.best_buy[1].ask
            /\ \E i \in StatedValid : /\ an_quotes[i].exchange = r.best_sell[1].exchange
                                      /\ an_quotes[i].bid = r.best_sell[1].bid
            /\ \A i \in StatedValid : r.best_buy[1].ask <= an_quotes[i].ask
            /\ \A i \in StatedValid : r.best_sell[1].bid >= an_quotes[i].bid
            /\ r.spread_abs = r.best_sell[1].bid - r.best_buy[1].ask
\* an analysis of a valid quote next to a quote that is not OK but carries
\* the lowest ask and a quote left out by the source filter
C26_Witness ==
    /\ Analyzed /\ StatedValid # {} /\ an_only_ws
    /\ \E i \in 1..Len(an_quotes) : an_quotes[i].status # "OK" /\ an_quotes[i].ask = 991
    /\ \E i \in 1..Len(an_quotes) : an_quotes[i].status = "OK" /\ an_quotes[i].source = "HTTP"
                                    /\ an_quotes[i].bid > 0

\* the ordered pairs (buy, sell) of valid quotes of different exchanges whose
\* spread over the buy ask reaches min_spread_pct
StatedPairs ==
    {<<i, j>> \in StatedValid \X StatedValid :
        /\ an_quotes[i].exchange # an_quotes[j].exchange
        /\ (an_quotes[j].bid - an_quotes[i].ask) * 100000 >= an_min_spread * an_quotes[i].ask}
\* the stated pair an opportunity stands for
IsPair(o, p) ==
    /\ o.buy_exchange = an_quotes[p[1]].exchange /\ o.buy_ask = an_quotes[p[1]].ask
    /\ o.sell_exchange = an_quotes[p[2]].exchange /\ o.sell_bid = an_quotes[p[2]].bid
    /\ o.spread_abs = o.sell_bid - o.buy_ask
    /\ o.spread_pct.num * o.buy_ask = o.spread_abs * 100 * o.spread_pct.den
\* a / b against c / d, for b, d > 0
AtLeast(a, b, c, d) == a * d >= c * b

\* C27: the opportunities are stated pairs, each once, with spread_abs =
\* sell_bid - buy_ask and spread_pct = spread_abs / buy_ask * 100, in
\* descending order of spread_pct; there are top_n of them, or all stated
\* pairs if those are fewer, and no stated pair left out has a higher
\* spread_pct than one listed.
C27_Opportunities ==
    Analyzed =>
        LET ops == an_result[1].opportunities
            idx == 1..Len(ops)
            listed == {p \in StatedPairs : \E k \in idx : IsPair(ops[k], p)}
        IN  /\ Len(ops) <= an_top_n
            /\ \A k \in idx : \E p \in StatedPairs : IsPair(ops[k], p)
            /\ \A k, l \in idx : (k # l) =>
                  <<ops[k].buy_exchange, ops[k].sell_exchange>>
                      # <<ops[l].buy_exchange, ops[l].sell_exchange>>
            /\ \A k, l \in idx : (k < l) =>
                  AtLeast(ops[k].spread_pct.num, ops[k].spread_pct.den,
                          ops[l].spread_pct.num, ops[l].spread_pct.den)
            /\ Len(ops) = IF Cardinality(StatedPairs) < an_top_n
                          THEN Cardinality(StatedPairs) ELSE an_top_n
            /\ \A p \in StatedPairs \ listed : \A k \in idx :
                  AtLeast(ops[k].spread_pct.num, ops[k].spread_pct.den,
                          an_quotes[p[2]].bid - an_quotes[p[1]].ask, an_quotes[p[1]].ask)
\* an analysis that cut a list of pairs with different spreads down to top_n
C27_Witness ==
    /\ Analyzed
    /\ an_top_n = 2
    /\ Cardinality(StatedPairs) > 2
    /\ LET ops == an_result[1].opportunities
       IN  Len(ops) = 2 /\ ops[1].spread_pct # ops[2].spread_pct

\* C28: the headline spread_pct is spread_abs / best_buy.ask * 100; for the
\* quotes A{bid 100, ask 100.1} and B{bid 100.5, ask 100.6} analyze returns
\* best_buy A at 100.1, best_sell B at 100.5, spread_abs 0.4 and a
\* spread_pct of 0.3996 to four places.
C28_HeadlinePct ==
    (Analyzed /\ an_result[1].best_buy # <<>>) =>
        LET r == an_result[1]
        IN  /\ r.spread_pct.num * r.best_buy[1].ask = r.spread_abs * 100 * r.spread_pct.den
            /\ (an_quotes = ScenarioQuotes) =>
                  /\ r.best_buy[1].exchange = "A" /\ r.best_buy[1].ask = 1001
                  /\ r.best_sell[1].exchange = "B" /\ r.best_sell[1].bid = 1005
                  /\ r.spread_abs = 4
                  /\ r.spread_pct.num * 10000 >= 3996 * r.spread_pct.den
                  /\ r.spread_pct.num * 10000 < 3997 * r.spread_pct.den
\* the analysis of the quotes of the scenario
C28_Witness == Analyzed /\ an_quotes = ScenarioQuotes

(***************************************************************************)
(* MainWindow: the quote snapshots handed to the table of quotes           *)
(*                                                                         *)
(* Prices are integers (millionths of the quote currency).  The `error`    *)
(* of a snapshot is "" when the payload has no error key or the key is     *)
(* None.                                                                   *)
(***************************************************************************)
\* _last_requested_exchanges
RequestedExchanges == <<"A", "B">>
Snapshot(exchange, bid, ask, last_price, status, source, error) ==
    [exchange |-> exchange, bid |-> bid, ask |-> ask, last |-> last_price, status |-> status,
     source |-> source, error |-> error]
\* CcxtPriceProvider._format_quote
FormatQuote(exchange, bid, ask, last_price, status, error) ==
    Snapshot(exchange, bid, ask, last_price, status, "HTTP", error)
\* the quote fetch_quotes appends for one exchange, on each of its paths
HttpQuotes(e) ==
    {FormatQuote(e, 1000000, 1000200, 1000100, "OK", ""),
     FormatQuote(e, 0, 0, 1000100, "OK", ""),
     FormatQuote(e, 0, 0, 0, "ERROR", "Unsupported exchange"),
     FormatQuote(e, 0, 0, 0, "LOADING", "Loading markets"),
     FormatQuote(e, 0, 0, 0, "WARMING_UP", "Loading markets"),
     FormatQuote(e, 0, 0, 0, "ERROR", "cooldown"),
     FormatQuote(e, 0, 0, 0, "NO_SYMBOL", "not listed"),
     FormatQuote(e, 0, 0, 0, "TIMEOUT", "request timed out")}
\* FakeQuoteService._pick_status, the spread in millionths
PickStatus(spread) ==
    IF spread > 380 THEN "Error" ELSE IF spread > 300 THEN "Warning" ELSE "OK"
\* the spreads random.uniform(spread_min, spread_max) may draw
FakeSpreads == {200, 340, 390}
\* FakeQuoteService.generate, for one exchange and a base price of 1
Generate(e, spread) ==
    Snapshot(e, 1000000 - spread \div 2, 1000000 + spread \div 2, 1000000,
             PickStatus(spread), "HTTP", "")
\* WsProviderBase._emit_quote
EmitQuote(exchange, bid, ask, last_price, status, error) ==
    Snapshot(exchange, bid, ask, last_price, status, "WS", error)
\* the quotes the providers emit: a ticker, and the HTTP_ONLY quote of the
\* KuCoin provider
WsQuotes(e) ==
    {EmitQuote(e, 1000000, 1000200, 1000100, "OK", ""),
     EmitQuote(e, 0, 0, 0, "HTTP_ONLY", "KuCoin WS cooldown active")}

InitQuoteTable ==
    quotes_by_exchange = [e \in {"A", "B"} |-> <<>>]

\* MainWindow._normalize_quote_item
NormalizeQuoteItem(item) ==
    [item EXCEPT !.status = IF @ = "" THEN "ERROR" ELSE @,
                 !.source = IF @ = "" THEN "HTTP" ELSE @]
\* MainWindow._normalize_quotes: the items, then a placeholder for every
\* requested exchange that has none
NormalizeQuotes(quotes, exchanges) ==
    LET normalized == [i \in 1..Len(quotes) |-> NormalizeQuoteItem(quotes[i])]
        seen == {normalized[i].exchange : i \in 1..Len(normalized)}
        missing == SelectSeq(exchanges, LAMBDA e : e \notin seen)
    IN  normalized \o [i \in 1..Len(missing) |->
                          Snapshot(missing[i], 0, 0, 0, "ERROR", "", "No data")]
\* MainWindow._cache_quotes
CacheQuotes(quotes) ==
    [e \in {"A", "B"} |->
        IF \E i \in 1..Len(quotes) : quotes[i].exchange = e
        THEN <<quotes[CHOOSE i \in 1..Len(quotes) :
                         /\ quotes[i].exchange = e
                         /\ \A j \in (i + 1)..Len(quotes) : quotes[j].exchange # e]>>
        ELSE <<>>]

\* QuoteFetchWorker.run and MainWindow._handle_quotes: the quotes of
\* fetch_quotes or, when it raised, of the fallback generator
HandleQuotes(raised, qa, qb) ==
    /\ IF raised
       THEN \E sa, sb \in FakeSpreads : qa = Generate("A", sa) /\ qb = Generate("B", sb)
       ELSE qa \in HttpQuotes("A") /\ qb \in HttpQuotes("B")
    /\ quotes_by_exchange' = CacheQuotes(NormalizeQuotes(<<qa, qb>>, RequestedExchanges))
    /\ UNCHANGED notQuote

\* MainWindow._handle_ws_quote
HandleWsQuote(timer_active, quote) ==
    /\ quotes_by_exchange' =
          IF timer_active
          THEN [quotes_by_exchange EXCEPT ![quote.exchange] = <<NormalizeQuoteItem(quote)>>]
          ELSE quotes_by_exchange
    /\ UNCHANGED notQuote

QuoteStep ==
    \/ \E raised \in BOOLEAN :
       \E qa \in HttpQuotes("A") \cup {Generate("A", s) : s \in FakeSpreads} :
       \E qb \in HttpQuotes("B") \cup {Generate("B", s) : s \in FakeSpreads} :
           HandleQuotes(raised, qa, qb)
    \/ \E timer_active \in BOOLEAN, quote \in WsQuotes("A") \cup WsQuotes("B") :
           HandleWsQuote(timer_active, quote)

\* C29: every snapshot in the table whose status is not OK has bid = ask =
\* last = 0 and carries a reason.
C29_NonOkCarriesZeros ==
    \A e \in {"A", "B"} :
        (quotes_by_exchange[e] # <<>> /\ quotes_by_exchange[e][1].status # "OK") =>
            /\ quotes_by_exchange[e][1].bid = 0
            /\ quotes_by_exchange[e][1].ask = 0
            /\ quotes_by_exchange[e][1].last = 0
            /\ quotes_by_exchange[e][1].error # ""

(***************************************************************************)
(* MarketCache: the cache file of one exchange, written by the discovery   *)
(* runs that loaded its catalogue (scanner/market_cache.py)                *)
(***************************************************************************)
\* discovery runs that save the catalogue of the same exchange; a run that
\* was cancelled goes on to its save while the next one is under way
Savers == {"s1", "s2"}
\* the flushes of the buffered handle that one json.dump takes
PayloadChunks == 2
\* saves one run makes
MaxSaves == 2
NoFile == 0
Files == 1..(2 * MaxSaves + 1)

\* the k-th payload of saver s, as the chunks it is written in
Payload(s, k) == [i \in 1..PayloadChunks |-> <<s, k, i>>]
\* a catalogue saved before the program started
OldPayload == Payload("old", 1)
Hole == <<"-", 0, 0>>

IdleSaver(n) == [pc |-> "idle", handle |-> NoFile, pos |-> 0, n |-> n]

\* found: whether <name>.json exists at the start
InitMarketCache(found) ==
    /\ mc_path \in (IF TRUE \in found THEN {1} ELSE {}) \cup (IF FALSE \in found THEN {NoFile} ELSE {})
    /\ mc_tmp = NoFile
    /\ mc_data = [f \in Files |-> IF f = 1 /\ mc_path = 1 THEN OldPayload ELSE <<>>]
    /\ mc_saver = [s \in Savers |-> IdleSaver(0)]
    /\ mc_loaded = "none"

\* a file no name and no open handle refers to
FreeFile ==
    CHOOSE f \in Files :
        /\ f # 1
        /\ f \notin {mc_path, mc_tmp}
        /\ \A s \in Savers : mc_saver[s].handle # f

\* write(2) of one chunk at an offset: the file grows to the offset if it is
\* shorter
WriteAt(content, pos, chunk) ==
    [i \in 1..(IF Len(content) > pos THEN Len(content) ELSE pos + 1) |->
        IF i = pos + 1 THEN chunk
        ELSE IF i <= Len(content) THEN content[i] ELSE Hole]

\* save, line 51: tmp_path.open("w") creates <name>.tmp or truncates the
\* file of that name; an OSError is logged (lines 54-55)
SaveOpen(s, ok) ==
    /\ mc_saver[s].pc = "idle"
    /\ mc_saver[s].n < MaxSaves
    /\ IF ok
       THEN /\ \E f \in {IF mc_tmp = NoFile THEN FreeFile ELSE mc_tmp} :
                 /\ mc_tmp' = f
                 /\ mc_data' = [mc_data EXCEPT ![f] = <<>>]
                 /\ mc_saver' = [mc_saver EXCEPT ![s] =
                        [pc |-> "write", handle |-> f, pos |-> 0, n |-> @.n + 1]]
       ELSE /\ mc_saver' = [mc_saver EXCEPT ![s] = IdleSaver(@.n + 1)]
            /\ UNCHANGED <<mc_tmp, mc_data>>
    /\ UNCHANGED <<mc_path, mc_loaded>>
    /\ UNCHANGED notCache

\* save, line 52: json.dump writes the payload through the handle, one
\* buffer at a time; the last buffer goes out when the with block closes the
\* handle. An OSError (a full disk) ends the save: the handle is closed and
\* the error is logged
SaveWrite(s, ok) ==
    /\ mc_saver[s].pc = "write"
    /\ IF ok
       THEN /\ mc_data' = [mc_data EXCEPT ![mc_saver[s].handle] =
                              WriteAt(@, mc_saver[s].pos, Payload(s, mc_saver[s].n)[mc_saver[s].pos + 1])]
            /\ mc_saver' = [mc_saver EXCEPT ![s] =
                   IF @.pos + 1 = PayloadChunks
                   THEN [@ EXCEPT !.pc = "replace", !.handle = NoFile, !.pos = 0]
                   ELSE [@ EXCEPT !.pos = @ + 1]]
       ELSE /\ mc_saver' = [mc_saver EXCEPT ![s] = IdleSaver(@.n)]
            /\ UNCHANGED mc_data
    /\ UNCHANGED <<mc_path, mc_tmp, mc_loaded>>
    /\ UNCHANGED notCache

\* save, line 53: tmp_path.replace(path) gives the file of <name>.tmp the
\* name <name>.json; FileNotFoundError, an OSError, when another save has
\* renamed it away
SaveReplace(s) ==
    /\ mc_saver[s].pc = "replace"
    /\ IF mc_tmp = NoFile
       THEN UNCHANGED <<mc_path, mc_tmp>>
       ELSE mc_path' = mc_tmp /\ mc_tmp' = NoFile
    /\ mc_saver' = [mc_saver EXCEPT ![s] = IdleSaver(@.n)]
    /\ UNCHANGED <<mc_data, mc_loaded>>
    /\ UNCHANGED notCache

\* the payloads a save writes
Payloads == {OldPayload} \cup {Payload(s, k) : s \in Savers, k \in 1..MaxSaves}

\* load, lines 32-44: None when there is no file or json.load fails on it,
\* else what the file holds
MarketCacheLoad ==
    /\ mc_loaded' = IF mc_path = NoFile THEN "absent"
                    ELSE IF mc_data[mc_path] \in Payloads THEN "markets"
                    ELSE "broken"
    /\ mc_loaded' # mc_loaded
    /\ UNCHANGED <<mc_path, mc_tmp, mc_data, mc_saver>>
    /\ UNCHANGED notCache

CacheStep ==
    \/ \E s \in Savers, ok \in BOOLEAN : SaveOpen(s, ok)
    \/ \E s \in Savers, ok \in BOOLEAN : SaveWrite(s, ok)
    \/ \E s \in Savers : SaveReplace(s)
    \/ MarketCacheLoad

(***************************************************************************)
(* Claims about the market cache (checked under SpecCache)                 *)
(***************************************************************************)
\* the file holds every chunk of one save, in order
IsComplete(content) ==
    /\ Len(content) = PayloadChunks
    /\ \E s \in Savers \cup {"old"}, k \in 1..MaxSaves :
          \A i \in 1..PayloadChunks : content[i] = <<s, k, i>>

\* savers that have opened the temporary file so far
Started == {s \in Savers : mc_saver[s].n > 0}

\* C32: a reader of the cache file of an exchange never finds a partly
\* written catalogue: in every state <name>.json is absent or holds the
\* complete payload of one save, whatever the savers of that exchange are
\* doing and wherever a save failed.
C32_NeverPartial ==
    mc_path # NoFile => IsComplete(mc_data[mc_path])

\* the same for the saves of one discovery run alone, failed ones included
OneSaverNeverPartial ==
    Cardinality(Started) <= 1 => (mc_path # NoFile => IsComplete(mc_data[mc_path]))

(***************************************************************************)
(* MainWindow: the streaming of the main window (gui/main_window.py        *)
(* _start_stream, _stop_stream, _refresh_quotes, _handle_quotes,           *)
(* _handle_ws_quote).  MainWindow keeps no run counter: what tells one     *)
(* streaming run from the next is the stop event its WsManager creates     *)
(* per start (ws_manager.py line 60).                                      *)
(***************************************************************************)
InitStream ==
    /\ mw_timer = FALSE
    /\ fetch_in_progress = FALSE
    /\ mw_stop_event = [id |-> 0, is_set |-> FALSE]
    /\ mw_status = "IDLE"
    /\ mw_workers = 0
    /\ updates_count = 0

\* _start_stream, lines 296-317, with start_for_selected_exchanges
\* (ws_manager.py 58-60): stop_all sets the event of the run before, a new
\* event is created
StartStream(has_ws) ==
    /\ ~mw_timer
    /\ mw_stop_event.id < MaxEpoch
    /\ mw_stop_event' = [id |-> mw_stop_event.id + 1, is_set |-> FALSE]
    /\ mw_timer' = TRUE
    /\ mw_status' = IF has_ws THEN "STARTING" ELSE "RUNNING"
    /\ UNCHANGED <<fetch_in_progress, mw_workers, updates_count>>
    /\ UNCHANGED notStream

\* _stop_stream, lines 319-328, with stop_all (ws_manager.py 91-93)
StopStream ==
    /\ mw_timer
    /\ mw_stop_event' = [mw_stop_event EXCEPT !.is_set = TRUE]
    /\ mw_timer' = FALSE
    /\ mw_status' = "IDLE"
    /\ UNCHANGED <<fetch_in_progress, mw_workers, updates_count>>
    /\ UNCHANGED notStream

\* _refresh_quotes, lines 335-346: called by the timer while it is active
\* (by_timer) or by the refresh button
RefreshQuotes(by_timer) ==
    /\ by_timer => mw_timer
    /\ ~fetch_in_progress
    /\ updates_count < MaxEpoch
    /\ updates_count' = updates_count + 1
    /\ fetch_in_progress' = TRUE
    /\ mw_workers' = mw_workers + 1
    /\ UNCHANGED <<mw_timer, mw_stop_event, mw_status>>
    /\ UNCHANGED notStream

\* QuoteFetchWorker.run ends and _handle_quotes (lines 348-368) puts its
\* quotes into the table, whatever run the worker was started in
QuotesDelivered ==
    /\ mw_workers > 0
    /\ mw_workers' = mw_workers - 1
    /\ fetch_in_progress' = FALSE
    /\ UNCHANGED <<mw_timer, mw_stop_event, mw_status, updates_count>>
    /\ UNCHANGED notStream

\* _handle_ws_quote, lines 374-385: the first quote of a run
StreamWsQuote ==
    /\ mw_timer
    /\ mw_status = "STARTING"
    /\ mw_status' = "CONNECTED"
    /\ UNCHANGED <<mw_timer, fetch_in_progress, mw_stop_event, mw_workers, updates_count>>
    /\ UNCHANGED notStream

StreamStep ==
    \/ \E has_ws \in BOOLEAN : StartStream(has_ws)
    \/ StopStream
    \/ \E by_timer \in BOOLEAN : RefreshQuotes(by_timer)
    \/ QuotesDelivered
    \/ StreamWsQuote

(***************************************************************************)
(* Claims about the run epochs                                             *)
(***************************************************************************)
\* the epoch of the scanner grows with each start, stop and clear, and
\* never falls
ScannerEpochGrows ==
    [][/\ (StartScan \/ StopScan \/ ClearScan) => run_id' > run_id
       /\ run_id' >= run_id]_vars
\* the epoch of the pair window grows with each start, pause and restart,
\* and never falls
PairEpochGrows ==
    [][/\ (PairStart \/ PairPause \/ (PairRefresh /\ start_enabled)) => p_run_id' > p_run_id
       /\ p_run_id' >= p_run_id]_vars

\* C34: every start, stop, pause, clear or restart strictly increases the
\* run epoch of its component (the scan of the scanner, the monitoring of a
\* pair window, the streaming of the main window), and no epoch ever falls.
C34_EpochGrows ==
    [][/\ (StartScan \/ StopScan \/ ClearScan) => run_id' > run_id
       /\ (PairStart \/ PairPause \/ (PairRefresh /\ start_enabled)) => p_run_id' > p_run_id
       /\ ((\E has_ws \in BOOLEAN : StartStream(has_ws)) \/ StopStream)
             => mw_stop_event'.id > mw_stop_event.id
       /\ run_id' >= run_id
       /\ p_run_id' >= p_run_id
       /\ mw_stop_event'.id >= mw_stop_event.id]_vars

(***************************************************************************)
(* Claims about the submits of a monitored pair window (SpecMonitor)       *)
(***************************************************************************)
\* the step hands a new fetch to the controller
SubmitsFetch == Len(http_jobs') > Len(http_jobs)

FallbackWork ==
    \/ FallbackTick
    \/ TimePasses
    \/ \E i \in 1..Len(http_jobs), ok \in BOOLEAN, heard \in BOOLEAN : JobEnds(i, ok, heard)
    \/ \E i \in 1..Len(http_jobs) : JobRelease(i)
    \/ \E i \in 1..Len(http_jobs), valid \in BOOLEAN, changed \in BOOLEAN :
          OnHttpSnapshot(i, valid, changed)
    \/ \E i \in 1..Len(http_jobs) : OnHttpFailed(i)

\* monitoring runs and the last streaming update, or the start when there
\* was none, is more than 3 s old
Silent == ~start_enabled /\ StalenessBase = "stale"

\* C36: while monitoring runs and the stream has been silent for more than
\* 3 s, an HTTP fallback fetch is eventually submitted, again and again for
\* as long as the silence lasts, also after the controller answered absent
\* for a busy key: from every such state a submit that the controller
\* accepts follows, unless monitoring is stopped.
C36_FallbackGoesOn == Silent ~> (p_line = "http" \/ start_enabled)

\* the first fetch of a silent run does come: a run that has turned stale
\* without any fetch so far gets one, unless it is stopped
FirstFallbackComes ==
    (Silent /\ ~fallback_active /\ ~p_in_flight /\ ~KeyHeld) ~> (p_line = "http" \/ start_enabled)

(***************************************************************************)
(* The pool at work: the jobs of _EXECUTOR run fetch_pair_tickers, which    *)
(* asks the exchanges of its window one after the other, each call inside  *)
(* http_slot, while scan threads outside the pool use the same limiter.    *)
(* The pair windows have submitted one job more than the pool has threads. *)
(***************************************************************************)
PoolJobs == MAX_EXCHANGE_WORKERS + 1
PoolJobIds == 1..PoolJobs
\* pair_analysis_window.py line 511: key=f"pair-http-{self._symbol}"
JobKeys == <<"pair-http-S1", "pair-http-S2", "pair-http-S3", "pair-http-S4", "pair-http-S5">>
\* the exchanges of each of these windows
PairExchanges == <<"A">>

\* fetch_pair_tickers at the head of its loop with n exchanges left
AtLoop(n) == [pc |-> "loop", left |-> n]

InitFetching == fetching = [i \in PoolJobIds |-> AtLoop(Len(PairExchanges))]

\* every submit has returned its job: the keys are held, the tasks wait in
\* the queue of the executor with _done registered
InitQueued ==
    /\ in_flight = {JobKeys[i] : i \in PoolJobIds}
    /\ subs = [i \in PoolJobIds |->
                  [key |-> JobKeys[i], run |-> 1, st |-> "queued", cb |-> TRUE,
                   by |-> "-", ok |-> TRUE, ev |-> <<Emitted("started", 1)>>]]
    /\ queue = [i \in PoolJobIds |-> i]
    /\ caller = [c \in Callers |-> [pc |-> "idle", sid |-> 0]]
    /\ last = NoResult
    /\ forcedKeys = {}

\* fetch_pair_tickers, lines 232-258: the next exchange, up to `with http_slot():`
FetchWant(i) ==
    /\ subs[i].st = "running"
    /\ fetching[i].pc = "loop"
    /\ fetching[i].left > 0
    /\ fetching' = [fetching EXCEPT ![i].pc = "wait"]
    /\ httpWait' = [httpWait EXCEPT !["pool"] = @ + 1]
    /\ UNCHANGED <<slots, httpCall>>
    /\ UNCHANGED notFetching

\* http_slot, line 82, entered from line 258
FetchAcquire(i) ==
    /\ fetching[i].pc = "wait"
    /\ SlotFree
    /\ slots' = slots - 1
    /\ httpWait' = [httpWait EXCEPT !["pool"] = @ - 1]
    /\ httpCall' = [httpCall EXCEPT !["pool"] = @ + 1]
    /\ fetching' = [fetching EXCEPT ![i].pc = "call"]
    /\ UNCHANGED notFetching

\* fetch_ticker returns (ok) or raises, lines 259-274: the slot is given
\* back and the loop goes on with the next exchange
FetchCallEnds(i, ok) ==
    /\ fetching[i].pc = "call"
    /\ slots' = SlotsAfterCall(ok)
    /\ httpCall' = [httpCall EXCEPT !["pool"] = @ - 1]
    /\ fetching' = [fetching EXCEPT ![i] = AtLoop(@.left - 1)]
    /\ UNCHANGED httpWait
    /\ UNCHANGED notFetching

\* line 290: `return entries, errors` after the last exchange (every
\* failure of a call was caught at line 260), and the task ends
FetchReturns(i) ==
    /\ fetching[i] = AtLoop(0)
    /\ TaskEnds(i, TRUE)

\* _done, update_controller.py lines 50-60, run by the pool thread from
\* its first line to its last: the outcome signal, the release of the key
\* under the lock, the finished signal
DoneRuns(i) ==
    /\ subs[i].st = "done"
    /\ subs[i].by # "-"
    /\ in_flight' = in_flight \ {subs[i].key}
    /\ subs' = [subs EXCEPT ![i].st = "finished", ![i].by = "-",
                            ![i].ev = @ \o <<Emitted(OutcomeSignal(subs[i].ok), subs[i].run),
                                             Emitted("finished", subs[i].run)>>]
    /\ last' = NoResult
    /\ UNCHANGED <<queue, caller, forcedKeys>>
    /\ UNCHANGED notCtl

\* the steps of job i that wait for nothing but the thread being scheduled
\* and the gateway call ending
JobStep(i) ==
    \/ FetchWant(i)
    \/ \E ok \in BOOLEAN : FetchCallEnds(i, ok)
    \/ FetchReturns(i)
    \/ DoneRuns(i)

ScanCallEnds == \E ok \in BOOLEAN : HttpCallEnds("scan", ok)

PoolStep ==
    \/ TaskStart
    \/ \E i \in PoolJobIds : JobStep(i)
    \/ \E i \in PoolJobIds : FetchAcquire(i)
    \/ HttpWant("scan")
    \/ HttpAcquire("scan")
    \/ ScanCallEnds

\* a pool thread that can go on does
PoolProgress == TaskStart \/ \E i \in PoolJobIds : JobStep(i)

PoolAcquires == \E i \in PoolJobIds : FetchAcquire(i)

\* the threads of the pool are scheduled, every gateway call ends, and the
\* pool threads blocked in acquire are not passed over for ever when
\* permits keep coming free
PoolFairness ==
    /\ WF_vars(PoolProgress)
    /\ SF_vars(PoolAcquires)
    /\ WF_vars(ScanCallEnds)

InitOnePricing == InitPrice({[k \in PairKinds |-> TRUE]})
\* exchanges that list any kinds of pair
InitPricing == InitPrice([PairKinds -> BOOLEAN])
\* a scanner that asks the exchange of the rotation model for nothing
InitOneRotation == InitRotate({0})
\* a cycle without a limit on the width of a book
InitOneCycle == InitCycle({NoLimit}, {<<>>}, {2}, {ScanKeys})
\* an analysis of no quotes
InitOneAnalysis == InitAnalyze({<<>>}, {0}, {FALSE}, {10})
InitOneCache == InitMarketCache({FALSE})
InitCalc == InitOneRotation /\ InitOneCycle /\ InitOneAnalysis /\ InitOneCache
InitWindows ==
    InitHttp /\ InitScanner /\ InitPair /\ InitThrottle /\ InitQuoteTable /\ InitStream /\ InitFetching
InitRest == InitCtl /\ InitWindows
InitOthers == InitRest /\ InitOnePricing /\ InitCalc
InitQuotes ==
    InitRest /\ InitPricing /\ InitWs(<<>>) /\ InitDiscover({<<"B">>}, {{}}, {1}) /\ InitCalc
\* a discovery of one exchange with an empty catalogue
InitOneDiscovery == InitDiscover({<<"B">>}, {{}}, {1})
Init == InitOthers /\ InitWs(<<>>) /\ InitOneDiscovery
\* a window one of whose exchanges has an enabled provider
InitStreaming == InitOthers /\ InitWs(<<"A">>) /\ InitOneDiscovery
\* a discovery over every list of exchanges, catalogue and threshold
\* the parts that run jobs, windows and providers, idle
InitCore == InitRest /\ InitOnePricing /\ InitWs(<<>>) /\ InitOneDiscovery
\* a scanner that asks one exchange without fetchTickers for more than a batch
InitRotation == InitCore /\ InitRotate(SymbolCounts) /\ InitOneCycle /\ InitOneAnalysis /\ InitOneCache
\* a scan cycle under every limit on the width of a book
InitCycling == InitCore /\ InitOneRotation /\ InitCycle(LimitChoices, PairsChoices, MaxPairsChoices, DueChoices) /\ InitOneAnalysis /\ InitOneCache
\* an analysis of every table of quotes under every setting
InitAnalysis ==
    /\ InitCore /\ InitOneRotation /\ InitOneCycle
    /\ InitAnalyze(QuoteLists, MinSpreadChoices, BOOLEAN, TopNChoices)
    /\ InitOneCache
InitDiscovery ==
    InitOthers /\ InitWs(<<>>) /\ InitDiscover(DiscLists, CatalogueChoices, MinExchangesChoices)

NextCtl == CtlStep
SpecCtl == Init /\ [][NextCtl]_vars

NextHttp == HttpStep
SpecHttp == Init /\ [][NextHttp]_vars

NextScanner == ScannerStep
SpecScanner == Init /\ [][NextScanner]_vars

\* streaming of one pair window: monitoring sessions shorter than the
\* staleness interval, started and paused by the user
NextWs == PairStart \/ PairPause \/ BootstrapStep \/ StreamingStep
SpecWs == InitStreaming /\ [][NextWs]_vars

NextGui == ScannerStep \/ WindowStep \/ BootstrapStep
SpecGui == Init /\ [][NextGui]_vars

NextThrottle == ThrottleStep
SpecThrottle == Init /\ [][NextThrottle]_vars

\* the cycles of one scanner follow one another for as long as it scans
NextRotate == RotateStep
SpecRotate == InitRotation /\ [][NextRotate]_vars /\ WF_vars(NextRotate)

NextCycle == CycleStep
SpecCycle == InitCycling /\ [][NextCycle]_vars

NextAnalyze == AnalyzeCall
SpecAnalyze == InitAnalysis /\ [][NextAnalyze]_vars

\* the cache file found or not at the start
InitCaching ==
    /\ InitCore /\ InitOneRotation /\ InitOneCycle /\ InitOneAnalysis
    /\ InitMarketCache(BOOLEAN)
NextCache == CacheStep
SpecCache == InitCaching /\ [][NextCache]_vars

\* a pair window whose stream stays silent; the timer, the clock, the pool
\* and the event loop keep going
NextFallback == WindowStep
SpecFallback == Init /\ [][NextFallback]_vars /\ WF_vars(FallbackWork)

\* a pair window with its stream, its timer and its fallback fetches:
\* monitoring ends when the window pauses itself over bad data
NextMonitor ==
    \/ PairStart
    \/ PairRefresh
    \/ FallbackTick
    \/ TimePasses
    \/ \E i \in 1..Len(http_jobs) : JobEnds(i, TRUE, TRUE)
    \/ \E i \in 1..Len(http_jobs) : JobRelease(i)
    \/ \E i \in 1..Len(http_jobs) : OnHttpSnapshot(i, TRUE, TRUE)
    \/ BootstrapStep
    \/ \E g \in Gens : BootResolved(g, TRUE)
    \/ \E g \in Gens : BootRegister(g)
    \/ \E g \in Gens : BootStart(g)
    \/ \E g \in Gens, e \in Exch : ProviderConnects(g, e)
    \/ \E g \in Gens, e \in Exch : ProviderQuote(g, e)
    \/ \E g \in Gens, e \in Exch : ProviderError(g, e, TRUE)
    \/ OnWsQuote(TRUE, TRUE)
    \/ OnWsError
SpecMonitor == InitStreaming /\ [][NextMonitor]_vars

\* five pair windows have submitted their fallback jobs
InitPool == InitQueued /\ InitWindows /\ InitOnePricing /\ InitCalc /\ InitWs(<<>>) /\ InitOneDiscovery
NextPool == PoolStep
SpecPool == InitPool /\ [][NextPool]_vars /\ PoolFairness

NextStream == StreamStep
SpecStream == Init /\ [][NextStream]_vars

NextQuote == QuoteStep
SpecQuote == Init /\ [][NextQuote]_vars

NextDiscover == DiscoverStep
SpecDiscover == InitDiscovery /\ [][NextDiscover]_vars

NextPrice == PriceStep
SpecPrice == InitQuotes /\ [][NextPrice]_vars

====
